---- MODULE Spec2Model ----
(***************************************************************************)
(* A model of otrie's TrieStore (src/src/TrieStore.ts) and of its tree and *)
(* path utilities (Utils.ts, the complete copy being src/unnamed/part_001).*)
(*                                                                         *)
(* State values are immutable JavaScript values.  An object is modelled    *)
(* with an identity `id`, so that `===` on objects is identity and not     *)
(* structural equality: every clone and every object literal gets a fresh  *)
(* id.  The `ptrie` Trie is an external library: the observers trie is     *)
(* modelled as the map from the paths that hold a subject to that subject. *)
(***************************************************************************)
EXTENDS Integers, Sequences, FiniteSets, TLC

\* ------------------------------------------------------------------ bounds

\* Number of set, delete, reset and runInBatch calls made in one behaviour.
MaxCalls == 3

\* Path segments, the scalars the callers store and the subscribers.
Keys == {"a", "b"}
\* The paths the callers set and delete.
MutatedPaths == {<<>>, <<"a">>, <<"a", "b">>}
Scalars == {1}
SubIds == {1, 2}
\* The depths runInBatch nests to.
BatchDepths == {0, 1, 2}
\* Subscriber 1 subscribes with observeChanges, subscriber 2 with observe.
KindOf(s) == IF s = 1 THEN "observeChanges" ELSE "observe"
\* The paths a subscriber subscribes at: the two can meet at one path, sit
\* one above the other, or sit on sibling subtrees.
Paths(s) == IF s = 1 THEN {<<>>, <<"a", "b">>} ELSE {<<"a", "b">>, <<"b">>}

\* ------------------------------------------------------------------ values

NoKeys == [k \in {} |-> 0]
Undefined == [t |-> "undefined", id |-> 0, n |-> 0, m |-> NoKeys]
Null == [t |-> "null", id |-> 0, n |-> 0, m |-> NoKeys]
Num(k) == [t |-> "number", id |-> 0, n |-> k, m |-> NoKeys]
Rec(i, f) == [t |-> "record", id |-> i, n |-> 0, m |-> f]
\* A string, a boolean, a big integer: scalars told apart by their type.
Scalar(t, k) == [t |-> t, id |-> 0, n |-> k, m |-> NoKeys]
\* An array of length len with the own properties f.
Arr(i, len, f) == [t |-> "array", id |-> i, n |-> len, m |-> f]
\* The function a prototype gives to the values of type t.
Builtin(t) == [t |-> "function", id |-> 0, n |-> IF t = "array" THEN 1 ELSE 0, m |-> NoKeys]

\* JavaScript `===`: identity for objects, value for primitives.
RefEq(x, y) == x.t = y.t /\ x.id = y.id /\ x.n = y.n

\* typeof v === 'object' && v !== null
IsObject(v) == v.t \in {"record", "array"}

\* Array.isArray(v)
isArray(v) == v.t = "array"

\* Number(key) in halves, NaN for a key that is no numeral.
NaN == 0 - 1000
Number(key) ==
    CASE key = "-1" -> 0 - 2
      [] key = "0" -> 0
      [] key = "1" -> 2
      [] key = "1.5" -> 3
      [] key = "2" -> 4
      [] OTHER -> NaN

\* setInPath, lines 58-61 (no key of the model is an infinite numeral).
isValidArrayIndex(key) ==
    LET index == Number(key)
    IN  index # NaN /\ index >= 0

\* The numbers of the keys that are elements of an array: the integers.
IsIndex(number) == number # NaN /\ number >= 0 /\ number % 2 = 0

IsElementKey(key) == IsIndex(Number(key))

\* The members every object, array, number and function inherits from its
\* prototype.
PrototypeKeys == {"toString"}

inherited(v, key) ==
    IF v.t \in {"record", "array", "number", "function"} /\ key \in PrototypeKeys
    THEN Builtin(v.t)
    ELSE Undefined

\* v[key]: the own property, else the inherited one, else undefined.
getKey(v, key) ==
    IF v.t \in {"record", "array"} /\ key \in DOMAIN v.m THEN v.m[key] ELSE inherited(v, key)

\* A copy that copies the objects it holds as well.
cloneWithChildren(v, newId) ==
    Rec(newId, [k \in DOMAIN v.m |->
                    IF v.m[k].t \in {"record", "array"}
                    THEN [v.m[k] EXCEPT !.id = @ + 100]
                    ELSE v.m[k]])

\* {...v} with a new identity.
cloneRecord(v, newId) == Rec(newId, v.m)

\* No copy: what is written to the result is written to the array itself.
sameArray(v, newId) == v

\* [...v] with a new identity: the elements, without the other properties.
cloneArray(v, newId) == Arr(newId, v.n, [k \in {j \in DOMAIN v.m : IsElementKey(j)} |-> v.m[k]])

\* The length of v once the property of that number is assigned: an element
\* at or beyond the length extends an array.
lengthWith(v, number) ==
    IF v.t = "array" /\ IsIndex(number) /\ number \div 2 >= v.n THEN number \div 2 + 1 ELSE v.n

\* v[key] = x
setKey(v, key, x) == [v EXCEPT !.m = (key :> x) @@ v.m, !.n = lengthWith(v, Number(key))]

deleteKey(v, key) == [v EXCEPT !.m = [k \in (DOMAIN v.m) \ {key} |-> v.m[k]]]

RECURSIVE IdsOf(_)
IdsOf(v) ==
    IF v.t \in {"record", "array"}
    THEN {v.id} \cup UNION {IdsOf(v.m[k]) : k \in DOMAIN v.m}
    ELSE {}

\* ------------------------------------------------------------------ paths

\* String.localeCompare on the keys of the model.
KeyRank(k) == IF k = "a" THEN 1 ELSE 2
localeCompare(k1, k2) == KeyRank(k1) - KeyRank(k2)

isPathPrefix(path, prefixPath) ==
    IF Len(path) < Len(prefixPath)
    THEN FALSE
    ELSE \A i \in 1..Len(prefixPath) : path[i] = prefixPath[i]

\* The comparator of sortPaths, from segment i on.
RECURSIVE comparePaths(_, _, _)
comparePaths(p1, p2, i) ==
    IF i > Len(p1) THEN Len(p1) - Len(p2)
    ELSE IF i = Len(p2) + 1 THEN 1
    ELSE LET delta == localeCompare(p1[i], p2[i])
         IN  IF delta # 0 THEN delta ELSE comparePaths(p1, p2, i + 1)

\* Array.prototype.sort is stable: p goes after every element not above it.
RECURSIVE insertSorted(_, _)
insertSorted(sorted, p) ==
    IF sorted = <<>> THEN <<p>>
    ELSE LET last == sorted[Len(sorted)]
         IN  IF comparePaths(last, p, 1) <= 0
             THEN Append(sorted, p)
             ELSE Append(insertSorted(SubSeq(sorted, 1, Len(sorted) - 1), p), last)

RECURSIVE sortFrom(_, _, _)
sortFrom(paths, i, acc) ==
    IF i > Len(paths) THEN acc ELSE sortFrom(paths, i + 1, insertSorted(acc, paths[i]))

\* A sort that leaves the paths in the order it finds them in.
unsorted(paths) == paths

sortPaths(paths) == sortFrom(paths, 1, <<>>)

\* Array slots of the two filters: a path, or undefined once it is struck out.
Slot(p) == [def |-> TRUE, p |-> p]
Struck == [def |-> FALSE, p |-> <<>>]

\* A test that strikes equal paths only, whatever the selection.
strikesEqual(mode, pi, pj) == Len(pi) = Len(pj) /\ isPathPrefix(pi, pj)

\* The test of the inner loop: selectUniquePaths strikes equal paths,
\* selectUniquePathPrefixes strikes every extension.
strikes(mode, pi, pj) ==
    IF mode = "unique"
    THEN Len(pi) = Len(pj) /\ isPathPrefix(pi, pj)
    ELSE isPathPrefix(pj, pi)

\* for (j = ...; j < length; j++) { if (test) { arr[j] = undefined; i++; } }
\* `arr` is the sorted array itself (the filter aliases it); reading a
\* struck slot is a TypeError.
RECURSIVE innerLoop(_, _, _, _, _)
innerLoop(mode, arr, i, j, pi) ==
    IF j > Len(arr) THEN [arr |-> arr, i |-> i, err |-> FALSE]
    ELSE IF ~arr[j].def THEN [arr |-> arr, i |-> i, err |-> TRUE]
    ELSE IF strikes(mode, pi, arr[j].p)
         THEN innerLoop(mode, [arr EXCEPT ![j] = Struck], i + 1, j + 1, pi)
         ELSE innerLoop(mode, arr, i, j + 1, pi)

\* for (i = 0; i < length - 1; i++) { pi = sorted[i]; inner loop }
RECURSIVE outerLoop(_, _, _)
outerLoop(mode, arr, i) ==
    IF i >= Len(arr) THEN [arr |-> arr, err |-> FALSE]
    ELSE IF ~arr[i].def THEN [arr |-> arr, err |-> TRUE]
    ELSE LET r == innerLoop(mode, arr, i, i + 1, arr[i].p)
         IN  IF r.err THEN [arr |-> r.arr, err |-> TRUE]
             ELSE outerLoop(mode, r.arr, r.i + 1)

RECURSIVE keepDefined(_, _)
keepDefined(arr, i) ==
    IF i > Len(arr) THEN <<>>
    ELSE IF arr[i].def THEN <<arr[i].p>> \o keepDefined(arr, i + 1)
    ELSE keepDefined(arr, i + 1)

filterSorted(mode, paths) ==
    LET sorted == sortPaths(paths)
    IN  outerLoop(mode, [i \in 1..Len(sorted) |-> Slot(sorted[i])], 1)

selectUniquePaths(paths) == keepDefined(filterSorted("unique", paths).arr, 1)

selectUniquePathPrefixes(paths) ==
    IF Len(paths) = 1 THEN paths
    ELSE IF \E i \in 1..Len(paths) : Len(paths[i]) = 0 THEN << <<>> >>
    ELSE keepDefined(filterSorted("prefix", paths).arr, 1)

\* ------------------------------------------------------------------ tree

\* What a mutator call returns, or the error it throws.
Ok(state) == [err |-> "none", state |-> state]
Thrown(e) == [err |-> e, state |-> Undefined]

\* TrieStore._get: for (i < path.length && result !== undefined) result = result?.[key]
RECURSIVE getFrom(_, _, _)
getFrom(result, path, i) ==
    IF i > Len(path) \/ result = Undefined THEN result
    ELSE getFrom(getKey(result, path[i]), path, i + 1)

_get(customRootState, path) == getFrom(customRootState, path, 1)

\* deepCloneOnPath, line 122 and line 113: the copy of a node on the path.
cloneOf(shared, newId) ==
    IF shared.t = "array" THEN cloneArray(shared, newId) ELSE cloneRecord(shared, newId)

\* A deleteKey that deletes from arrays as from records.
deleteInAny(clonedState, key, early) ==
    [err |-> "none", early |-> early, node |-> deleteKey(clonedState, key)]

\* deepCloneOnPath.deleteKey on a copy; `early` marks the `return
\* clonedState` taken when a missing intermediate node is met while deleting.
deleteIn(clonedState, key, early) ==
    IF clonedState.t = "array"
    THEN [err |-> "ArrayElementDelete", early |-> FALSE, node |-> Undefined]
    ELSE [err |-> "none", early |-> early, node |-> deleteKey(clonedState, key)]

\* clonedState[key] = clonedSubState, once the rest of the path is patched.
linked(clonedState, key, r) ==
    IF r.err # "none" \/ r.early THEN r
    ELSE [err |-> "none", early |-> FALSE, node |-> setKey(clonedState, key, r.node)]

\* deepCloneOnPath from path[i] on. `shared` is the node of the original
\* tree at path[1..i-1] ({} where the original has none); its copy
\* clonedState takes the identity firstId + i - 1, and sharedSubState is
\* clonedState[path[i]].
RECURSIVE cloneFrom(_, _, _, _, _)
patchClone(clonedState, sharedSubState, path, i, patchValue, firstId) ==
    IF i = Len(path)
    THEN IF patchValue = Undefined
         THEN deleteIn(clonedState, path[i], FALSE)
         ELSE linked(clonedState, path[i], [err |-> "none", early |-> FALSE, node |-> patchValue])
    ELSE IF sharedSubState # Undefined /\ ~IsObject(sharedSubState)
    THEN [err |-> "InternalError", early |-> FALSE, node |-> Undefined]
    ELSE IF sharedSubState = Undefined /\ patchValue = Undefined
    THEN deleteIn(clonedState, path[i], TRUE)
    ELSE linked(clonedState, path[i],
                cloneFrom(IF sharedSubState = Undefined THEN Rec(0, NoKeys) ELSE sharedSubState,
                          path, i + 1, patchValue, firstId))

cloneStep(clonedState, path, i, patchValue, firstId) ==
    patchClone(clonedState, getKey(clonedState, path[i]), path, i, patchValue, firstId)

cloneFrom(shared, path, i, patchValue, firstId) ==
    cloneStep(cloneOf(shared, firstId + i - 1), path, i, patchValue, firstId)

deepCloneOnPath(originalState, path, patchValue, firstId) ==
    LET r == cloneFrom(originalState, path, 1, patchValue, firstId)
    IN  IF r.err # "none" THEN Thrown(r.err) ELSE Ok(r.node)

\* The type an error message names: subState === null ? '<null>' : typeof subState
typeLabel(subState) == IF subState = Null THEN "<null>" ELSE subState.t

\* The loop of deleteInPath over the intermediate nodes: the node that holds
\* the leaf, or `missing` (nothing to delete), or the error. The error's
\* message names path.slice(0, i), which for the key path[i] read here (keys
\* are counted from 1) is path[1..i-1], and the type of the node found.
RECURSIVE deleteWalk(_, _, _)
deleteWalk(subState, path, i) ==
    IF i >= Len(path) THEN [err |-> "none", missing |-> FALSE, subState |-> subState]
    ELSE LET next == getKey(subState, path[i])
         IN  IF next = Undefined THEN [err |-> "none", missing |-> TRUE, subState |-> next]
             ELSE IF ~IsObject(next)
             THEN [err |-> "NonRecordParent", missing |-> FALSE, subState |-> next,
                   Path |-> SubSeq(path, 1, i - 1), type |-> typeLabel(next)]
             ELSE deleteWalk(next, path, i + 1)

\* A deleteInPath that deletes whatever the leaf holds.
leafIsNeverMissing(subState, leafKey) == FALSE

\* deleteInPath, line 98: subState[leafKey] === undefined
leafIsMissing(subState, leafKey) == getKey(subState, leafKey) = Undefined

deleteInPath(state, path, firstId) ==
    IF Len(path) = 0 THEN Thrown("EmptyPath")
    ELSE LET w == deleteWalk(state, path, 1)
         IN  IF w.err # "none" THEN Thrown(w.err)
             ELSE IF w.missing THEN Ok(state)
             ELSE IF leafIsMissing(w.subState, path[Len(path)]) THEN Ok(state)
             ELSE deepCloneOnPath(state, path, Undefined, firstId)

\* The loop of setInPath: for (i < path.length - 1 && subState !== undefined).
RECURSIVE setWalk(_, _, _)
setWalk(subState, path, i) ==
    IF i >= Len(path) \/ subState = Undefined THEN [err |-> "none", subState |-> subState]
    ELSE LET next == getKey(subState, path[i])
         IN  IF isArray(subState) /\ ~isValidArrayIndex(path[i])
             THEN [err |-> "InvalidArrayIndex", subState |-> subState]
             ELSE IF next # Undefined /\ ~IsObject(next)
             THEN [err |-> "NonRecordParent", subState |-> next]
             ELSE setWalk(next, path, i + 1)

\* A setInPath that never finds the value already in place.
neverSame(subState, leafKey, newValue) == FALSE

\* subState?.[leafKey] === newValue
leafIsSame(subState, leafKey, newValue) == RefEq(getKey(subState, leafKey), newValue)

\* A test of the root that lets every object pass.
isAnyObject(newValue) == IsObject(newValue)

\* setInPath, line 53: typeof newValue === 'object' && newValue !== null &&
\* !Array.isArray(newValue)
isRecord(newValue) == IsObject(newValue) /\ newValue.t # "array"

\* A setInPath that stores undefined like any value.
neverAbsent(newValue) == FALSE

\* setInPath, line 49: newValue === undefined
isAbsent(newValue) == newValue = Undefined

setInPath(state, path, newValue, firstId) ==
    IF isAbsent(newValue) THEN deleteInPath(state, path, firstId)
    ELSE IF Len(path) = 0
    THEN IF isRecord(newValue) THEN Ok(newValue) ELSE Thrown("InvalidRootType")
    ELSE LET w == setWalk(state, path, 1)
         IN  IF w.err # "none" THEN Thrown(w.err)
             ELSE IF isArray(w.subState) /\ ~isValidArrayIndex(path[Len(path)])
             THEN Thrown("InvalidArrayIndex")
             ELSE IF leafIsSame(w.subState, path[Len(path)], newValue) THEN Ok(state)
             ELSE deepCloneOnPath(state, path, newValue, firstId)

\* Actions: set and delete carry a path, a batch carries actions.
SetAction(path, value) == [type |-> "set", path |-> path, value |-> value, actions |-> <<>>]
DeleteAction(path) == [type |-> "delete", path |-> path, value |-> Undefined, actions |-> <<>>]
BatchAction(actions) == [type |-> "batch", path |-> <<>>, value |-> Undefined, actions |-> actions]

\* extractPaths(action, 'as-is')
RECURSIVE extractPathsAsIs(_)
RECURSIVE extractPathsOfAll(_, _)
extractPathsOfAll(actions, i) ==
    IF i > Len(actions) THEN <<>>
    ELSE extractPathsAsIs(actions[i]) \o extractPathsOfAll(actions, i + 1)
extractPathsAsIs(action) ==
    IF action.type \in {"set", "delete"} THEN <<action.path>>
    ELSE extractPathsOfAll(action.actions, 1)

extractPaths(action, mode) ==
    IF mode = "unique-and-sorted"
    THEN selectUniquePaths(extractPathsAsIs(action))
    ELSE extractPathsAsIs(action)

\* The identities a tree holds that were allocated from firstId on.
NextFreeId(state, firstId) ==
    LET used == {i \in IdsOf(state) : i >= firstId}
    IN  IF used = {} THEN firstId ELSE (CHOOSE i \in used : \A j \in used : j <= i) + 1

\* apply: a batch threads the intermediate tree through its actions (each
\* action clones with identities not yet in the tree).
RECURSIVE apply(_, _, _)
RECURSIVE applyReduce(_, _, _, _)
\* A reduce that applies every action to the tree the batch was given, and
\* returns what the last one gives.
applyLast(result, actions, i, firstId) ==
    IF Len(actions) = 0 THEN Ok(result) ELSE apply(result, actions[Len(actions)], firstId)

applyReduce(result, actions, i, firstId) ==
    IF i > Len(actions) THEN Ok(result)
    ELSE LET r == apply(result, actions[i], firstId)
         IN  IF r.err # "none" THEN r
             ELSE applyReduce(r.state, actions, i + 1, NextFreeId(r.state, firstId))
apply(state, action, firstId) ==
    IF action.type = "set" THEN setInPath(state, action.path, action.value, firstId)
    ELSE IF action.type = "delete" THEN deleteInPath(state, action.path, firstId)
    ELSE applyReduce(state, action.actions, 1, firstId)

\* ------------------------------------------------------------------ store

VARIABLES
    rootState,                  \* TrieStore.rootState
    rootStateBeforeBatchStart,  \* TrieStore.rootStateBeforeBatchStart
    batchDepth,                 \* TrieStore.batchDepth
    appliedBatchActions,        \* TrieStore.appliedBatchActions
    observersTrie,              \* TrieStore.observersTrie: path -> subject
    observers,                  \* the subscribers: the closures of _observeChanges
    initialState,               \* the constructor's argument, kept by the caller
    emitted,                    \* history: the subject.next calls of the last call
    delivered,                  \* history: the observer.next calls of the last call
    lastCall,                   \* history: the last call made on the store
    batchLog,                   \* history: the set/delete calls of the open (or last) outermost batch
    batchStartRoot,             \* history: rootState when the outermost batch began
    calls,                      \* history: the number of set, delete, reset and runInBatch calls so far
    thrown,                     \* history: the error the last call threw to its caller
    history                     \* history: what a specification keeps beyond that (Spec keeps nothing)

vars == <<rootState, rootStateBeforeBatchStart, batchDepth, appliedBatchActions, observersTrie,
          observers, initialState, emitted, delivered, lastCall, batchLog, batchStartRoot, calls,
          thrown, history>>

NoAction == [type |-> "none", path |-> <<>>, value |-> Undefined, actions |-> <<>>]

\* A subject of the trie: its flag and its observers in subscription order.
Subject(details, obs) == [isAllDetailsMode |-> details, observers |-> obs]
EmptyTrie == [p \in {} |-> Subject(FALSE, <<>>)]

trieSet(trie, path, subject) == [p \in (DOMAIN trie) \cup {path} |-> IF p = path THEN subject ELSE trie[p]]
trieDelete(trie, path) == [p \in (DOMAIN trie) \ {path} |-> trie[p]]
trieIsEmpty(trie) == DOMAIN trie = {}

\* A trie node that counts no subject below it.
noChildrenWithValue(trie, path) == 0

\* TrieNode.childrenWithValue: the nodes below `path` that hold a value.
childrenWithValue(trie, path) ==
    Cardinality({q \in DOMAIN trie : Len(q) > Len(path) /\ isPathPrefix(q, path)})

\* A set of paths as a sorted array.
RECURSIVE SeqOfPaths(_)
SeqOfPaths(S) ==
    IF S = {} THEN <<>>
    ELSE LET p == CHOOSE x \in S : TRUE IN <<p>> \o SeqOfPaths(S \ {p})

\* visitDfs('pre-order', ..., path) over the observers trie: the paths at
\* or below `path` that hold a subject.
subjectsFrom(trie, path) == sortPaths(SeqOfPaths({q \in DOMAIN trie : isPathPrefix(q, path)}))

RECURSIVE childPathsFrom(_, _, _)
childPathsFrom(trie, parentPaths, i) ==
    IF i > Len(parentPaths) THEN <<>>
    ELSE (IF childrenWithValue(trie, parentPaths[i]) > 0
          THEN subjectsFrom(trie, parentPaths[i])
          ELSE <<>>) \o childPathsFrom(trie, parentPaths, i + 1)

\* A notifier that leaves out the subscribed descendants.
noChildPaths(trie, parentPaths) == <<>>

selectChildPathsWithObservers(trie, parentPaths) == childPathsFrom(trie, parentPaths, 1)

\* updateTrie.fillPath for every path, in order: the nodes of the update
\* trie in the order they are created (the root exists from the start).
RECURSIVE fillPath(_, _, _)
fillPath(nodes, path, n) ==
    IF n > Len(path) THEN nodes
    ELSE LET node == SubSeq(path, 1, n)
         IN  fillPath(IF \E k \in 1..Len(nodes) : nodes[k] = node THEN nodes ELSE Append(nodes, node),
                      path, n + 1)

RECURSIVE fillPaths(_, _, _)
fillPaths(nodes, paths, i) ==
    IF i > Len(paths) THEN nodes ELSE fillPaths(fillPath(nodes, paths[i], 1), paths, i + 1)

\* visitDfs('pre-order') over the update trie: a node, then its children in
\* the order they were created, each with its subtree.
RECURSIVE visitDfs(_, _)
RECURSIVE visitChildren(_, _, _)
visitChildren(nodes, parent, k) ==
    IF k > Len(nodes) THEN <<>>
    ELSE (IF Len(nodes[k]) = Len(parent) + 1 /\ isPathPrefix(nodes[k], parent)
          THEN visitDfs(nodes, nodes[k])
          ELSE <<>>) \o visitChildren(nodes, parent, k + 1)
\* A post-order visit: the children with their subtrees, then the node.
visitPostOrder(nodes, node) == visitChildren(nodes, node, 1) \o <<node>>
visitDfs(nodes, node) == <<node>> \o visitChildren(nodes, node, 1)

\* A notifier that visits every subject of the trie.
everySubject(trie, action) == subjectsFrom(trie, <<>>)

\* The paths _notify visits, in order.
notifyOrder(trie, action) ==
    LET uniquePathsInActions == extractPaths(action, "unique-and-sorted")
        childPathsWithObservers == selectChildPathsWithObservers(trie, uniquePathsInActions)
        pathsToNotify == selectUniquePaths(uniquePathsInActions \o childPathsWithObservers)
    IN  visitDfs(fillPaths(<< <<>> >>, pathsToNotify, 1), <<>>)

\* A subject.next that is given the value of the constructor's argument.
dataOfInitialState(trie, root, before, path) ==
    [path |-> path,
     value |-> _get(initialState, path),
     oldValue |-> IF trie[path].isAllDetailsMode THEN _get(before, path) ELSE Undefined]

\* A subject.next that is given the value of the root kept for the old values.
staleData(trie, root, before, path) ==
    [path |-> path,
     value |-> _get(before, path),
     oldValue |-> IF trie[path].isAllDetailsMode THEN _get(before, path) ELSE Undefined]

\* What subject.next is given at `path`.
subjectData(trie, root, before, path) ==
    [path |-> path,
     value |-> _get(root, path),
     oldValue |-> IF trie[path].isAllDetailsMode THEN _get(before, path) ELSE Undefined]

RECURSIVE emitAll(_, _, _, _, _)
emitAll(trie, root, before, order, i) ==
    IF i > Len(order) THEN <<>>
    ELSE (IF order[i] \in DOMAIN trie
          THEN <<subjectData(trie, root, before, order[i])>>
          ELSE <<>>) \o emitAll(trie, root, before, order, i + 1)

\* The subject.next calls of _notify(action).
notifyEmits(trie, root, before, action) == emitAll(trie, root, before, notifyOrder(trie, action), 1)

\* The map() of _observeChanges: the paths of the change relative to `path`.
RECURSIVE subPathsOf(_, _, _)
subPathsOf(fullPaths, path, i) ==
    IF i > Len(fullPaths) THEN <<>>
    ELSE (IF Len(path) = 0 THEN <<fullPaths[i]>>
          ELSE IF isPathPrefix(fullPaths[i], path)
          THEN <<SubSeq(fullPaths[i], Len(path) + 1, Len(fullPaths[i]))>>
          ELSE <<>>) \o subPathsOf(fullPaths, path, i + 1)

\* A map() that passes the paths of the action on as they are.
fullPathsOf(trie, path, action) ==
    IF trie[path].isAllDetailsMode THEN extractPaths(action, "as-is") ELSE <<>>

changePaths(trie, path, action) ==
    IF trie[path].isAllDetailsMode
    THEN selectUniquePathPrefixes(subPathsOf(extractPaths(action, "as-is"), path, 1))
    ELSE <<>>

\* What an observer's callback receives: observe() maps the change to its value.
Change(s, kind, path, initial, value, oldValue, paths) ==
    [sub |-> s, kind |-> kind, path |-> path, initial |-> initial, value |-> value,
     oldValue |-> IF kind = "observeChanges" THEN oldValue ELSE Undefined,
     paths |-> IF kind = "observeChanges" THEN paths ELSE <<>>]

\* excludeTrie.get(path) once every path of pathsToExclude is set to true:
\* the trie holds true at exactly these paths.
excludeTrieGet(pathsToExclude, path) == \E i \in DOMAIN pathsToExclude : pathsToExclude[i] = path

\* A filter that lets every event pass.
neverFiltered(pathsToExclude, action) == TRUE

\* The filter() of _observeChanges: excludeTrie === undefined ||
\* extractPaths(action, 'as-is').some(path => !excludeTrie.get(path))
passesFilter(pathsToExclude, action) ==
    \/ Len(pathsToExclude) = 0
    \/ \E fullPaths \in {extractPaths(action, "as-is")} :
           \E i \in DOMAIN fullPaths : ~excludeTrieGet(pathsToExclude, fullPaths[i])

RECURSIVE deliverTo(_, _, _, _, _)
deliverTo(trie, obs, data, action, i) ==
    LET subs == trie[data.path].observers
    IN  IF i > Len(subs) THEN <<>>
        ELSE (IF passesFilter(obs[subs[i]].pathsToExclude, action)
              THEN <<Change(subs[i], obs[subs[i]].kind, data.path, FALSE, data.value,
                            data.oldValue, changePaths(trie, data.path, action))>>
              ELSE <<>>)
             \o deliverTo(trie, obs, data, action, i + 1)

RECURSIVE deliverAll(_, _, _, _, _)
deliverAll(trie, obs, emits, action, i) ==
    IF i > Len(emits) THEN <<>>
    ELSE deliverTo(trie, obs, emits[i], action, 1) \o deliverAll(trie, obs, emits, action, i + 1)

\* ------------------------------------------------------------------ calls

\* The record of the last call.  `op` is "apply" for set and delete,
\* "runInBatchFinally" for the end of a runInBatch and "other" otherwise;
\* `pre` is what a set or delete met at its path ("same": the value it sets
\* is there already, "absent": nothing is there to delete); `touched` holds
\* the path of a set or delete that replaced the root reference.
Call(op, pre, touched) == [op |-> op, pre |-> pre, touched |-> touched]

\* The record of a call that is no set, no delete and ends no batch.
OtherCall == Call("other", "none", {})

\* A subscriber that is not subscribed (not yet, or no longer).
Idle == [status |-> "idle", kind |-> "none", path |-> <<>>, pathsToExclude |-> <<>>]

\* The states a store is constructed with.
InitialStates == {Rec(1, "a" :> Rec(2, "b" :> Num(1)))}

RECURSIVE IdsOfActions(_, _)
IdsOfActions(actions, i) ==
    IF i > Len(actions) THEN {} ELSE IdsOf(actions[i].value) \cup IdsOfActions(actions, i + 1)

\* An identity no object of the state has.
FreshId ==
    LET used == IdsOf(rootState) \cup IdsOf(rootStateBeforeBatchStart) \cup IdsOf(initialState)
                \cup IdsOf(batchStartRoot) \cup IdsOfActions(appliedBatchActions, 1)
    IN  (CHOOSE i \in used : \A j \in used : j <= i) + 1

\* The store after new TrieStore(state).
Constructed(state) ==
    /\ initialState = state
    /\ rootState = state
    /\ rootStateBeforeBatchStart = state
    /\ batchDepth = 0
    /\ appliedBatchActions = <<>>
    /\ observersTrie = EmptyTrie
    /\ observers = [s \in SubIds |-> Idle]
    /\ emitted = <<>>
    /\ delivered = <<>>
    /\ lastCall = OtherCall
    /\ batchLog = {}
    /\ batchStartRoot = state
    /\ calls = 0
    /\ thrown = "none"

\* The specification Spec keeps no more history than the last call's.
NoHistory == <<>>

Init == \E state \in InitialStates : Constructed(state) /\ history = NoHistory

\* The history of the batch is kept while a batch is open and through the
\* call that ends it; outside a batch the next batch would start from `root`.
BatchHistory(root) ==
    IF batchDepth > 0
    THEN UNCHANGED <<batchLog, batchStartRoot>>
    ELSE batchLog' = {} /\ batchStartRoot' = root

\* An initial change that carries the value of the root kept for the batch.
initialChangeOfSnapshot(path) ==
    [oldValue |-> Undefined, value |-> _get(rootStateBeforeBatchStart, path), paths |-> << <<>> >>]

\* _observeChanges, line 206.
initialChange(path) ==
    [oldValue |-> Undefined, value |-> _get(rootState, path), paths |-> << <<>> >>]

\* _observeChanges(path, pathsToExclude, kind) and the subscription to the
\* observable.
SubscribeExcluding(s, kind, path, pathsToExclude) ==
    /\ observers[s].status = "idle"
    /\ LET old == IF path \in DOMAIN observersTrie THEN observersTrie[path] ELSE Subject(FALSE, <<>>)
           subject == Subject(old.isAllDetailsMode \/ kind = "observeChanges", Append(old.observers, s))
       IN  observersTrie' = trieSet(observersTrie, path, subject)
    /\ observers' = [observers EXCEPT ![s] = [status |-> "active", kind |-> kind, path |-> path,
                                              pathsToExclude |-> pathsToExclude]]
    /\ emitted' = <<>>
    /\ LET c == initialChange(path)
       IN  delivered' = <<Change(s, kind, path, TRUE, c.value, c.oldValue, c.paths)>>
    /\ lastCall' = OtherCall
    /\ BatchHistory(rootState)
    /\ thrown' = "none"
    /\ UNCHANGED <<rootState, rootStateBeforeBatchStart, batchDepth, appliedBatchActions,
                   initialState, calls>>

\* observe(path) and observeChanges(path): pathsToExclude is [].
Subscribe(s, kind, path) == SubscribeExcluding(s, kind, path, <<>>)

\* A subject that counts as observed whatever observers it has.
alwaysObserved(subject) == TRUE

\* A subject that never counts as observed.
neverObserved(subject) == FALSE

\* subject.observed, line 230: the subject has an observer.
subjectObserved(subject) == subject.observers # <<>>

\* An unsubscribe that takes the flag of the subject down.
unsubscribedWithoutFlag(subject, s) ==
    Subject(FALSE, SelectSeq(subject.observers, LAMBDA o : o # s))

\* subscription.unsubscribe(), line 228: the observer leaves the subject.
unsubscribed(subject, s) ==
    Subject(subject.isAllDetailsMode, SelectSeq(subject.observers, LAMBDA o : o # s))

\* The teardown of one subscription, lines 227-233, as it leaves the trie.
teardown(trie, path, s) ==
    LET subject == unsubscribed(trie[path], s)
    IN  IF ~subjectObserved(subject) THEN trieDelete(trie, path) ELSE trieSet(trie, path, subject)

\* The teardown of the subscription.
Unsubscribe(s) ==
    /\ observers[s].status = "active"
    /\ observersTrie' = teardown(observersTrie, observers[s].path, s)
    /\ observers' = [observers EXCEPT ![s] = Idle]
    /\ emitted' = <<>>
    /\ delivered' = <<>>
    /\ lastCall' = OtherCall
    /\ BatchHistory(rootState)
    /\ thrown' = "none"
    /\ UNCHANGED <<rootState, rootStateBeforeBatchStart, batchDepth, appliedBatchActions,
                   initialState, calls>>

\* The observers of a sequence as a set.
ObserversOf(subject) == {subject.observers[i] : i \in DOMAIN subject.observers}

\* A complete() that reaches no observer.
nobodyCompleted(trie) == {}

\* reset, line 125: the observers that subject.complete() completes, those
\* of every subject of the trie.
completed(trie) == UNION {ObserversOf(trie[p]) : p \in DOMAIN trie}

\* The teardowns of the observers obs[i], obs[i + 1], ... of the subject at
\* `path`: an observer that completes is unsubscribed.
RECURSIVE tornDown(_, _, _, _)
tornDown(trie, path, obs, i) ==
    IF i > Len(obs) THEN trie
    ELSE tornDown(teardown(trie, path, obs[i]), path, obs, i + 1)

\* A complete() after which no teardown runs.
noTeardown(trie, paths, i) == trie

\* reset, line 125: visitDfs('pre-order', subject => subject?.complete()),
\* as it leaves the trie.
RECURSIVE completeSubjects(_, _, _)
completeSubjects(trie, paths, i) ==
    IF i > Len(paths) THEN trie
    ELSE completeSubjects(tornDown(trie, paths[i], trie[paths[i]].observers, 1), paths, i + 1)

\* reset(newState): every subject completes, the trie is emptied.
Reset(newState) ==
    /\ calls < MaxCalls
    /\ calls' = calls + 1
    /\ observersTrie' = trieDelete(completeSubjects(observersTrie,
                                                     subjectsFrom(observersTrie, <<>>), 1), <<>>)
    /\ observers' = [s \in SubIds |-> IF s \in completed(observersTrie) THEN Idle ELSE observers[s]]
    /\ rootState' = newState
    /\ emitted' = <<>>
    /\ delivered' = <<>>
    /\ lastCall' = OtherCall
    /\ BatchHistory(newState)
    /\ thrown' = "none"
    /\ UNCHANGED <<rootStateBeforeBatchStart, batchDepth, appliedBatchActions, initialState>>

\* _apply, line 158: the root kept for the comparison and for the old values.
rootBeforeApply(depth, root, before) == IF depth = 0 THEN root ELSE before

\* A test that does not look at the observers trie.
rootIsTheSame(root, before, trie) == RefEq(root, before)

\* _apply, line 162: "Nothing is changed."
nothingIsChanged(root, before, trie) == RefEq(root, before) \/ trieIsEmpty(trie)

\* An _apply that notifies at once at any depth.
neverDelayed(depth) == FALSE

\* _apply, line 165: the notification waits for the batch to end.
notificationIsDelayed(depth) == depth > 0

\* An entry of the batch's history, for a set or delete made in the batch
\* that replaced the root reference or that _apply pushed to
\* appliedBatchActions: its path, whether it replaced the root reference,
\* whether a subject existed then, and whether it was pushed.
Logged(path, changed, observed, recorded) ==
    [path |-> path, changed |-> changed, observed |-> observed, recorded |-> recorded]

\* An _apply that goes on after apply threw.
goesOn(err) == FALSE

\* _apply, line 161: what apply throws leaves _apply at once.
leavesApply(err) == err # "none"

\* What _apply(action) does in the current state: the snapshot it keeps, the
\* error apply throws, the root it leaves, whether the action is pushed to
\* appliedBatchActions, what the subjects emit and what the subscribers get.
applied(action) ==
    LET before == rootBeforeApply(batchDepth, rootState, rootStateBeforeBatchStart)
        firstId == IF action.value.id = FreshId THEN FreshId + 1 ELSE FreshId
        r == apply(rootState, action, firstId)
        newRoot == IF r.err = "none" THEN r.state ELSE rootState
        silent == leavesApply(r.err) \/ nothingIsChanged(newRoot, before, observersTrie)
        delayed == ~silent /\ notificationIsDelayed(batchDepth)
        emits == IF silent \/ delayed THEN <<>>
                 ELSE notifyEmits(observersTrie, newRoot, before, action)
    IN  [before |-> before, err |-> r.err, root |-> newRoot, delayed |-> delayed,
         emits |-> emits, delivered |-> deliverAll(observersTrie, observers, emits, action, 1)]

\* set and delete: _apply(action).
Apply(action) == \E o \in {applied(action)} :
    LET before == o.before
        newRoot == o.root
        delayed == o.delayed
        emits == o.emits
        changed == ~RefEq(newRoot, rootState)
        current == _get(rootState, action.path)
        pre == IF action.type = "set" /\ action.value # Undefined /\ RefEq(current, action.value)
               THEN "same"
               ELSE IF action.type = "delete" /\ current = Undefined THEN "absent"
               ELSE "other"
    IN  /\ calls < MaxCalls
        /\ calls' = calls + 1
        /\ rootStateBeforeBatchStart' = before
        /\ rootState' = newRoot
        /\ appliedBatchActions' = IF delayed THEN Append(appliedBatchActions, action)
                                  ELSE appliedBatchActions
        /\ emitted' = emits
        /\ delivered' = o.delivered
        /\ lastCall' = Call("apply", pre, IF changed THEN {action.path} ELSE {})
        /\ batchLog' = IF batchDepth > 0 /\ (changed \/ delayed)
                       THEN batchLog \cup {Logged(action.path, changed,
                                                  ~trieIsEmpty(observersTrie), delayed)}
                       ELSE IF batchDepth > 0 THEN batchLog ELSE {}
        /\ batchStartRoot' = IF batchDepth > 0 THEN batchStartRoot ELSE newRoot
        /\ thrown' = o.err
        /\ UNCHANGED <<batchDepth, observersTrie, observers, initialState>>

\* The values the callers store at `path`: a scalar, the object that is
\* there already, and as a root the constructor's argument, at a key of the
\* root a new empty record.
SetValues(path) ==
    {Num(k) : k \in Scalars}
    \cup {v \in {_get(rootState, path)} : IsObject(v)}
    \cup (IF Len(path) = 0 THEN {initialState}
          ELSE IF Len(path) = 1 THEN {Rec(FreshId, NoKeys)}
          ELSE {})

\* set(path, value) without a compareFn, and delete(path).
Set(path, value) == Apply(SetAction(path, value))

Delete(path) == Apply(DeleteAction(path))

\* The compareFn arguments of set: none, or a function of the old value, the
\* new value and the path, here the functions that answer true or false
\* whatever they are given.
CompareFns == {"absent", "true", "false"}

\* What compareFn returns for its arguments.
resultOf(compareFn, args) == compareFn = "true"

\* set, line 103: the arguments compareFn is called with.
compareFnArgs(path, value) == <<_get(rootState, path), value, path>>

\* A test that takes the answer false for equality.
valuesDiffer(compareFn, args) == compareFn # "absent" /\ ~resultOf(compareFn, args)

\* set, line 103: compareFn?.(this.get(path), value, path), the values are
\* equal and the set is left out.
valuesAreEqual(compareFn, args) == compareFn # "absent" /\ resultOf(compareFn, args)

\* set(path, value, compareFn) when compareFn finds the values equal: _apply
\* is not called.
SetIsLeftOut ==
    /\ calls < MaxCalls
    /\ calls' = calls + 1
    /\ emitted' = <<>>
    /\ delivered' = <<>>
    /\ lastCall' = OtherCall
    /\ thrown' = "none"
    /\ BatchHistory(rootState)
    /\ UNCHANGED <<rootState, rootStateBeforeBatchStart, batchDepth, appliedBatchActions,
                   observersTrie, observers, initialState>>

\* set(path, value, compareFn).
SetCompared(path, value, compareFn) ==
    IF valuesAreEqual(compareFn, compareFnArgs(path, value))
    THEN SetIsLeftOut
    ELSE Apply(SetAction(path, value))

\* runInBatch, up to the call of batchFn.
RunInBatch ==
    /\ batchDepth + 1 \in BatchDepths
    /\ calls < MaxCalls
    /\ calls' = calls + 1
    /\ batchDepth' = batchDepth + 1
    /\ batchLog' = IF batchDepth = 0 THEN {} ELSE batchLog
    /\ batchStartRoot' = IF batchDepth = 0 THEN rootState ELSE batchStartRoot
    /\ emitted' = <<>>
    /\ delivered' = <<>>
    /\ lastCall' = OtherCall
    /\ thrown' = "none"
    /\ UNCHANGED <<rootState, rootStateBeforeBatchStart, appliedBatchActions, observersTrie,
                   observers, initialState>>

\* A runInBatch that notifies at the end of every level.
notifiedAtAnyDepth(depth, actions) == Len(actions) > 0

\* runInBatch, line 145: the batch is notified.
batchIsNotified(depth, actions) == depth = 0 /\ Len(actions) > 0

\* A finally block that leaves the depth as it is when batchFn raised.
depthAfterBody(depth, raised) == IF raised = "none" THEN depth - 1 ELSE depth

\* runInBatch, line 144: this.batchDepth--, whatever batchFn did.
depthAfterBatch(depth, raised) == depth - 1

\* A try that swallows what batchFn raised.
swallowed(raised) == "none"

\* runInBatch, lines 141-150: a try with a finally and no catch, what
\* batchFn raised is thrown to the caller once the finally block is done.
rethrown(raised) == raised

\* runInBatch, the finally block, after batchFn returned or raised.
RunInBatchFinally(raised) ==
    /\ batchDepth > 0
    /\ batchDepth' = depthAfterBatch(batchDepth, raised)
    /\ LET notified == batchIsNotified(batchDepth - 1, appliedBatchActions)
           batchAction == BatchAction(appliedBatchActions)
           emits == IF notified
                    THEN notifyEmits(observersTrie, rootState, rootStateBeforeBatchStart, batchAction)
                    ELSE <<>>
       IN  /\ appliedBatchActions' = IF notified THEN <<>> ELSE appliedBatchActions
           /\ emitted' = emits
           /\ delivered' = deliverAll(observersTrie, observers, emits, batchAction, 1)
    /\ lastCall' = Call("runInBatchFinally", "none", {})
    /\ thrown' = rethrown(raised)
    /\ UNCHANGED <<rootState, rootStateBeforeBatchStart, observersTrie, observers, initialState,
                   batchLog, batchStartRoot, calls>>

\* The calls of Spec; every batchFn returns.
Next ==
    \/ \E s \in SubIds : \E path \in Paths(s) :
           Subscribe(s, KindOf(s), path) /\ UNCHANGED history
    \/ \E s \in SubIds : Unsubscribe(s) /\ UNCHANGED history
    \/ \E path \in MutatedPaths : \E value \in SetValues(path) :
           Set(path, value) /\ UNCHANGED history
    \/ \E path \in MutatedPaths : Delete(path) /\ UNCHANGED history
    \/ Reset(Rec(FreshId, NoKeys)) /\ UNCHANGED history
    \/ RunInBatch /\ UNCHANGED history
    \/ RunInBatchFinally("none") /\ UNCHANGED history

Spec == Init /\ [][Next]_vars

\* ------------------------------------------- a batchFn that raises an error

\* What RaisingSpec keeps of the last call: of a subscribe the subscriber and
\* its path, of the end of a runInBatch what batchFn raised ("none" when it
\* returned), the batch depth it ran at and the root it left behind; and of
\* the runInBatch calls that are executing the batch depth each of them
\* found when it was called (`open`, the innermost call last), of the call
\* that ended last the depth it had found (`found`).
Detail(op, s, path, raised, depth, root, open, found) ==
    [op |-> op, sub |-> s, path |-> path, raised |-> raised, depth |-> depth, root |-> root,
     open |-> open, found |-> found]

\* The record of a call that is no subscribe and neither begins nor ends a
\* runInBatch.
NoDetail == Detail("other", 0, <<>>, "none", 0, Undefined, history.open, 0)

\* What batchFn does: it returns, it raises an error of its own, or it lets
\* the error of its last call pass.
BodyOutcomes == {"none", "Error", thrown}

InitRaising ==
    \E state \in InitialStates :
        /\ Constructed(state)
        /\ history = Detail("other", 0, <<>>, "none", 0, Undefined, <<>>, 0)

\* Subscribers come, the state is set and deleted in and out of batches, and
\* a batchFn returns or raises.
NextRaising ==
    \/ \E s \in SubIds : \E path \in Paths(s) :
           /\ Subscribe(s, KindOf(s), path)
           /\ history' = Detail("subscribe", s, path, "none", 0, Undefined, history.open, 0)
    \/ \E path \in MutatedPaths : \E value \in SetValues(path) :
           Set(path, value) /\ history' = NoDetail
    \/ \E path \in MutatedPaths : Delete(path) /\ history' = NoDetail
    \/ /\ RunInBatch
       /\ history' = Detail("runInBatch", 0, <<>>, "none", 0, Undefined,
                            Append(history.open, batchDepth), 0)
    \/ \E raised \in BodyOutcomes :
           /\ RunInBatchFinally(raised)
           /\ history' = Detail("runInBatchFinally", 0, <<>>, raised, batchDepth, rootState,
                                SubSeq(history.open, 1, Len(history.open) - 1),
                                history.open[Len(history.open)])

RaisingSpec == InitRaising /\ [][NextRaising]_vars

\* ------------------------------------------- the life of the subscriptions

\* How the last subscription of a subscriber ended ("none" while it has not,
\* or once the subscriber has subscribed again) and the path it had.
Ended(how, path) == [how |-> how, path |-> path]

NotEnded == Ended("none", <<>>)

\* What LifecycleSpec keeps: of a subscribe or unsubscribe the subscriber and
\* its path, of a reset its argument, of all three the paths that held a
\* subject before the call, and of every subscriber how its last
\* subscription ended.
Past(op, s, path, channels, newRoot, ended) ==
    [op |-> op, sub |-> s, path |-> path, channels |-> channels, newRoot |-> newRoot,
     ended |-> ended]

\* The record of a set or delete.
PastOfApply == Past("other", 0, <<>>, {}, Undefined, history.ended)

InitLifecycle ==
    \E state \in InitialStates :
        /\ Constructed(state)
        /\ history = Past("other", 0, <<>>, {}, Undefined, [s \in SubIds |-> NotEnded])

\* Subscribers come and go and the store is reset, set and deleted, outside
\* batches.
NextLifecycle ==
    \/ \E s \in SubIds : \E path \in Paths(s) :
           /\ Subscribe(s, KindOf(s), path)
           /\ history' = Past("subscribe", s, path, DOMAIN observersTrie, Undefined,
                              [history.ended EXCEPT ![s] = NotEnded])
    \/ \E s \in SubIds :
           /\ Unsubscribe(s)
           /\ history' = Past("unsubscribe", s, observers[s].path, DOMAIN observersTrie, Undefined,
                              [history.ended EXCEPT ![s] = Ended("unsubscribe", observers[s].path)])
    \/ \E path \in MutatedPaths : \E value \in SetValues(path) :
           Set(path, value) /\ history' = PastOfApply
    \/ \E path \in MutatedPaths : Delete(path) /\ history' = PastOfApply
    \/ \E newState \in {Rec(FreshId, NoKeys)} :
           /\ Reset(newState)
           /\ history' = Past("reset", 0, <<>>, DOMAIN observersTrie, newState,
                              [s \in SubIds |-> IF observers[s].status = "active"
                                                THEN Ended("reset", observers[s].path)
                                                ELSE history.ended[s]])

LifecycleSpec == InitLifecycle /\ [][NextLifecycle]_vars

\* ------------------------------------------------------ set with compareFn

\* What CompareSpec keeps of the last call: of a set its arguments, the
\* arguments compareFn was called with and the root the set found, of a
\* delete its path and the root it found.
Compared(op, path, value, compareFn, args, root) ==
    [op |-> op, path |-> path, value |-> value, compareFn |-> compareFn, args |-> args,
     root |-> root]

NotCompared == Compared("other", <<>>, Undefined, "absent", <<>>, Undefined)

InitCompare == \E state \in InitialStates : Constructed(state) /\ history = NotCompared

\* Subscribers come, paths are deleted, and the state is set with and without
\* a compareFn, outside batches.
NextCompare ==
    \/ \E s \in SubIds : \E path \in Paths(s) :
           Subscribe(s, KindOf(s), path) /\ history' = NotCompared
    \/ \E path \in MutatedPaths :
           /\ Delete(path)
           /\ history' = Compared("delete", path, Undefined, "absent", <<>>, rootState)
    \/ \E path \in MutatedPaths : \E value \in SetValues(path) : \E compareFn \in CompareFns :
           /\ SetCompared(path, value, compareFn)
           /\ history' = Compared("set", path, value, compareFn,
                                  IF compareFn = "absent" THEN <<>> ELSE compareFnArgs(path, value),
                                  rootState)

CompareSpec == InitCompare /\ [][NextCompare]_vars

\* ------------------------------------------------- the tree under set/delete

\* The calls TreeSpec makes on one store.
MaxTreeCalls == 2

\* The states the stores of TreeSpec are constructed with: records, and an
\* array that holds a record and a null.
Trees ==
    InitialStates
    \cup {Rec(1, "a" :> Arr(2, 2, ("0" :> Rec(3, "b" :> Num(1))) @@ ("1" :> Null)))}

\* The paths TreeSpec sets and deletes: the root, keys of records, elements
\* of arrays inside and beyond the length, a numeral that is no integer, and
\* a member every object inherits.
TreePaths ==
    {<<>>, <<"a">>, <<"a", "0">>, <<"a", "0", "b">>, <<"a", "2">>, <<"a", "1.5">>,
     <<"a", "toString">>}

\* The values TreeSpec stores at `path`.
TreeValues(path) ==
    {Num(1), Rec(FreshId, NoKeys)}
    \cup (IF path = <<"a">> THEN {Arr(FreshId, 0, NoKeys)} ELSE {})
    \cup (IF Len(path) = 2 THEN {Null} ELSE {})

\* The batch actions TreeSpec gives to apply: two sets, a set and a delete of
\* its element, a delete made twice, and a batch in a batch.
TreeBatches ==
    {BatchAction(<<SetAction(<<"a", "2">>, Num(1)), SetAction(<<"a", "0", "b">>, Null)>>),
     BatchAction(<<SetAction(<<"a", "0">>, Num(1)), DeleteAction(<<"a", "0">>)>>),
     BatchAction(<<DeleteAction(<<"a", "0">>), DeleteAction(<<"a", "0">>)>>),
     BatchAction(<<BatchAction(<<SetAction(<<"a">>, Rec(FreshId, NoKeys))>>),
                   SetAction(<<"a", "0">>, Num(1))>>)}

\* apply(store.state, action) called by a user of the library: the store
\* stays as it is, the caller gets the tree or the error.
ApplyToState(action) ==
    /\ calls < MaxCalls
    /\ calls' = calls + 1
    /\ emitted' = <<>>
    /\ delivered' = <<>>
    /\ lastCall' = OtherCall
    /\ thrown' = apply(rootState, action, FreshId + 1).err
    /\ BatchHistory(rootState)
    /\ UNCHANGED <<rootState, rootStateBeforeBatchStart, batchDepth, appliedBatchActions,
                   observersTrie, observers, initialState>>

\* What TreeSpec keeps: the last set, delete or apply with its path and value
\* (of an apply the tree it returned), the root it was applied to, and every
\* root store.state has returned so far.
Applied(type, path, value, root, roots) ==
    [type |-> type, path |-> path, value |-> value, root |-> root, roots |-> roots]

InitTree ==
    \E state \in Trees :
        Constructed(state) /\ history = Applied("none", <<>>, Undefined, state, {state})

\* Sets and deletes in and out of batches, with no subscriber.
NextTree ==
    \/ \E path \in TreePaths : \E value \in TreeValues(path) :
           /\ calls < MaxTreeCalls
           /\ Set(path, value)
           /\ history' = Applied("set", path, value, rootState, history.roots \cup {rootState'})
    \/ \E path \in TreePaths :
           /\ calls < MaxTreeCalls
           /\ Delete(path)
           /\ history' = Applied("delete", path, Undefined, rootState,
                                 history.roots \cup {rootState'})
    \/ \E action \in TreeBatches :
           /\ calls < MaxTreeCalls
           /\ ApplyToState(action)
           /\ history' = Applied("batch", <<>>, apply(rootState, action, FreshId + 1).state,
                                 rootState, history.roots)
    \/ /\ calls < MaxTreeCalls
       /\ RunInBatch
       /\ history' = Applied("none", <<>>, Undefined, rootState, history.roots)
    \/ /\ RunInBatchFinally("none")
       /\ history' = Applied("none", <<>>, Undefined, rootState, history.roots)

TreeSpec == InitTree /\ [][NextTree]_vars

\* ------------------------------------------------ set and delete that fail

\* The paths ErrorSpec sets and deletes: the root, a key of the root, an
\* element of an array, keys that are no index (a name, a fraction, a negative number), and a path
\* through the second element.
ErrorPaths ==
    {<<>>, <<"a">>, <<"a", "0">>, <<"a", "b">>, <<"a", "1.5">>, <<"a", "-1">>,
     <<"a", "1", "b">>}

\* The values ErrorSpec sets as the root: a number, null, an array, a string,
\* a boolean, a big integer, a function, and records (a new one, the
\* constructor's).
RootValues ==
    {Num(1), Null, Arr(FreshId, 0, NoKeys), Scalar("string", 1), Scalar("boolean", 1),
     Scalar("bigint", 1), Builtin("record"), Rec(FreshId, NoKeys), initialState}

\* The values ErrorSpec sets at `path`.
ErrorValues(path) == IF Len(path) = 0 THEN RootValues ELSE {Num(k) : k \in Scalars}

\* What ErrorSpec keeps of the last set or delete: the action, the root and
\* the accumulated actions it found, and of a set of undefined what a delete
\* at that path would have done in its place.
Attempt(type, path, value, root, actions, twin) ==
    [type |-> type, path |-> path, value |-> value, root |-> root, actions |-> actions,
     twin |-> twin]

NoTwin == [before |-> Undefined, err |-> "none", root |-> Undefined, delayed |-> FALSE,
           emits |-> <<>>, delivered |-> <<>>]

NoAttempt == Attempt("none", <<>>, Undefined, Undefined, <<>>, NoTwin)

InitError == \E state \in Trees : Constructed(state) /\ history = NoAttempt

\* A subscriber comes, numbers are set and nodes deleted in and out of
\* batches, on records and on an array.
NextError ==
    \/ \E path \in Paths(1) :
           Subscribe(1, KindOf(1), path) /\ history' = NoAttempt
    \/ \E path \in ErrorPaths : \E value \in ErrorValues(path) :
           /\ Set(path, value)
           /\ history' = Attempt("set", path, value, rootState, appliedBatchActions, NoTwin)
    \/ \E path \in ErrorPaths :
           /\ Set(path, Undefined)
           /\ history' = Attempt("set", path, Undefined, rootState, appliedBatchActions,
                                 applied(DeleteAction(path)))
    \/ \E path \in ErrorPaths :
           /\ Delete(path)
           /\ history' = Attempt("delete", path, Undefined, rootState, appliedBatchActions,
                                 NoTwin)
    \/ RunInBatch /\ history' = NoAttempt
    \/ RunInBatchFinally("none") /\ history' = NoAttempt

ErrorSpec == InitError /\ [][NextError]_vars

\* ---------------------------------------------- subscribers that exclude paths

\* The lists of paths the first subscriber excludes.
ExcludeLists == {<<<<"a">>>>, <<<<"a", "b">>>>, <<<<"a">>, <<"a", "b">>>>}

InitExclude == \E state \in InitialStates : Constructed(state) /\ history = NoHistory

\* The first subscriber excludes paths, the second one excludes none; values
\* are set and deleted in and out of batches.
NextExclude ==
    \/ \E path \in Paths(1) : \E pathsToExclude \in ExcludeLists :
           SubscribeExcluding(1, KindOf(1), path, pathsToExclude) /\ UNCHANGED history
    \/ \E path \in Paths(2) :
           Subscribe(2, KindOf(2), path) /\ UNCHANGED history
    \/ \E path \in MutatedPaths : \E value \in SetValues(path) :
           Set(path, value) /\ UNCHANGED history
    \/ \E path \in MutatedPaths : Delete(path) /\ UNCHANGED history
    \/ RunInBatch /\ UNCHANGED history
    \/ RunInBatchFinally("none") /\ UNCHANGED history

ExcludeSpec == InitExclude /\ [][NextExclude]_vars

\* ------------------------------------------------------ apply of a batch

\* The length of the batches FoldSpec gives to apply.
MaxBatch == 3

\* The actions of these batches: sets that change a value or find it in
\* place, deletes of a value and of nothing, sets of the root to the tree
\* itself, to a new record and to a number, a set of an element of an array,
\* and a batch.
FoldActions ==
    {SetAction(<<"a", "b">>, Num(1)), SetAction(<<"a", "b">>, Null),
     DeleteAction(<<"a", "b">>), DeleteAction(<<"b">>),
     SetAction(<<>>, rootState), SetAction(<<>>, Rec(FreshId, NoKeys)),
     SetAction(<<>>, Num(1)), SetAction(<<"a", "0">>, Num(1)),
     BatchAction(<<DeleteAction(<<"a", "b">>), SetAction(<<"b">>, Num(1))>>)}

\* What FoldSpec keeps of the last apply: the actions of the batch, the tree
\* it was applied to and the tree it returned.
Folded(actions, root, result) == [actions |-> actions, root |-> root, result |-> result]

InitFold == \E state \in Trees : Constructed(state) /\ history = Folded(<<>>, state, state)

\* apply(store.state, {type: 'batch', actions}) called once by a user of
\* the library.
NextFold ==
    \E n \in 0..MaxBatch : \E actions \in [1..n -> FoldActions] :
        /\ calls = 0
        /\ ApplyToState(BatchAction(actions))
        /\ history' = Folded(actions, rootState,
                             apply(rootState, BatchAction(actions), FreshId + 1).state)

FoldSpec == InitFold /\ [][NextFold]_vars

\* ------------------------------------------------------- lists of paths

\* The length of the lists of paths PathsSpec gives to the two selections.
MaxPaths == 4

\* These lists: paths of up to two keys, in any order and with duplicates.
PathLists ==
    UNION {[1..n -> {<<>>} \cup {<<k>> : k \in Keys} \cup {<<k1, k2>> : k1, k2 \in Keys}] :
               n \in 0..MaxPaths}

\* A caller's list of paths before it calls one of the selections.
InitPaths ==
    \E state \in InitialStates :
        /\ Constructed(state)
        /\ history = [fn |-> "none", paths |-> <<>>, after |-> <<>>, throws |-> FALSE,
                      result |-> <<>>]

\* selectUniquePathPrefixes(paths) and selectUniquePaths(paths) called by a
\* user of the library. sortPaths copies the list ([...paths]) and the
\* selections strike paths out of the copy, so that the caller's list is
\* after the call what it was; reading a struck slot throws a TypeError.
NextPaths ==
    /\ history.fn = "none"
    /\ \E paths \in PathLists :
           \/ history' = [fn |-> "selectUniquePathPrefixes", paths |-> paths, after |-> paths,
                          throws |-> /\ Len(paths) # 1
                                     /\ \A i \in DOMAIN paths : Len(paths[i]) # 0
                                     /\ filterSorted("prefix", paths).err,
                          result |-> selectUniquePathPrefixes(paths)]
           \/ history' = [fn |-> "selectUniquePaths", paths |-> paths, after |-> paths,
                          throws |-> filterSorted("unique", paths).err,
                          result |-> selectUniquePaths(paths)]
    /\ UNCHANGED <<rootState, rootStateBeforeBatchStart, batchDepth, appliedBatchActions,
                   observersTrie, observers, initialState, emitted, delivered, lastCall,
                   batchLog, batchStartRoot, calls, thrown>>

PathsSpec == InitPaths /\ [][NextPaths]_vars

\* ------------------------------------- callbacks that call the store

\* What subject.next is given when no subject is visited.
NoData == [path |-> <<>>, value |-> Undefined, oldValue |-> Undefined]

\* What ReentrantSpec keeps of the _notify in progress (or of the last one):
\* its action, the paths of the update trie in the order of the visit, the
\* number of paths visited, the data and the flag of the subject whose
\* subject.next is running and the observers it has still to serve, the
\* subscriber whose callback is running (0: none), the root the mutation
\* produced and the root before the mutation or the batch, what the
\* subscribers received, who unsubscribed since the _notify began, the
\* channels that left the trie before their path was visited, and the number
\* of calls made when the _notify began.
Notifying(action, order, i, data, mode, subs, running, root, before, log, left, closed, started) ==
    [action |-> action, order |-> order, i |-> i, data |-> data, mode |-> mode, subs |-> subs,
     running |-> running, root |-> root, before |-> before, log |-> log, left |-> left,
     closed |-> closed, started |-> started]

NotNotifying ==
    Notifying(NoAction, <<>>, 0, NoData, FALSE, <<>>, 0, Undefined, Undefined, <<>>, {}, {}, 0)

\* _notify has paths to visit or observers to serve.
InNotify == history.i < Len(history.order) \/ history.subs # <<>>

\* No _notify was begun yet.
NotYet == history.order = <<>>

\* A call is made by the user of the store before the _notify, and by a
\* subscriber's callback while it runs.
CanCall == NotYet \/ history.running # 0

\* What is kept of a call: of those a callback makes, who unsubscribed and
\* which channels left the trie before their path was visited.
AfterCall(left, closed) ==
    IF NotYet THEN NotNotifying
    ELSE [history EXCEPT !.left = @ \cup left, !.closed = @ \cup closed]

\* _apply reaches its last line, the call of _notify.
reachesNotify(o, depth, trie) ==
    /\ ~leavesApply(o.err)
    /\ ~nothingIsChanged(o.root, o.before, trie)
    /\ ~notificationIsDelayed(depth)

\* set and delete that notify: _apply(action) and _notify(action) up to the
\* visit of the update trie.
ApplyAndNotify(action) == \E o \in {applied(action)} :
    /\ calls < MaxCalls
    /\ reachesNotify(o, batchDepth, observersTrie)
    /\ calls' = calls + 1
    /\ rootStateBeforeBatchStart' = o.before
    /\ rootState' = o.root
    /\ emitted' = <<>>
    /\ delivered' = <<>>
    /\ lastCall' = Call("apply", "other", {action.path})
    /\ batchLog' = {}
    /\ batchStartRoot' = o.root
    /\ thrown' = "none"
    /\ history' = Notifying(action, notifyOrder(observersTrie, action), 0, NoData, FALSE, <<>>, 0,
                            o.root, rootState, <<>>, {}, {}, calls + 1)
    /\ UNCHANGED <<batchDepth, appliedBatchActions, observersTrie, observers, initialState>>

\* The finally block of an outermost runInBatch that notifies, up to the
\* visit of the update trie.
FinallyAndNotify ==
    /\ batchDepth > 0
    /\ batchIsNotified(batchDepth - 1, appliedBatchActions)
    /\ batchDepth' = depthAfterBatch(batchDepth, "none")
    /\ appliedBatchActions' = <<>>
    /\ emitted' = <<>>
    /\ delivered' = <<>>
    /\ lastCall' = Call("runInBatchFinally", "none", {})
    /\ thrown' = "none"
    /\ \E batchAction \in {BatchAction(appliedBatchActions)} :
           history' = Notifying(batchAction, notifyOrder(observersTrie, batchAction), 0, NoData,
                                FALSE, <<>>, 0, rootState, batchStartRoot, <<>>, {}, {}, calls)
    /\ UNCHANGED <<rootState, rootStateBeforeBatchStart, observersTrie, observers, initialState,
                   batchLog, batchStartRoot, calls>>

\* _notify, lines 182-187: the visitor of the update trie at its next path.
\* It looks the subject up in the observers trie and reads rootState and
\* rootStateBeforeBatchStart as they are now; subject.next then serves the
\* observers the subject has now.
VisitNext ==
    /\ history.subs = <<>>
    /\ history.i < Len(history.order)
    /\ batchDepth = 0
    /\ \E path \in {history.order[history.i + 1]} :
           IF path \in DOMAIN observersTrie
           THEN \E data \in {subjectData(observersTrie, rootState, rootStateBeforeBatchStart, path)} :
                    /\ emitted' = <<data>>
                    /\ history' = [history EXCEPT !.i = @ + 1, !.data = data,
                                                  !.mode = observersTrie[path].isAllDetailsMode,
                                                  !.subs = observersTrie[path].observers,
                                                  !.running = 0]
           ELSE /\ emitted' = <<>>
                /\ history' = [history EXCEPT !.i = @ + 1, !.running = 0]
    /\ delivered' = <<>>
    /\ UNCHANGED <<rootState, rootStateBeforeBatchStart, batchDepth, appliedBatchActions,
                   observersTrie, observers, initialState, lastCall, batchLog, batchStartRoot,
                   calls, thrown>>

\* A subscriber that stays open after its teardown.
neverClosed(obs, s) == FALSE

\* Subscriber.closed of rxjs: the subscriber was unsubscribed, its next()
\* does nothing.
closed(obs, s) == obs[s].status # "active"

\* What a subscriber received, what store.get(path) returned then, whether
\* it is the first callback to run since the subject was looked up, and
\* whether the subscriber had unsubscribed.
Received(c, now, first, left) ==
    [sub |-> c.sub, kind |-> c.kind, path |-> c.path, value |-> c.value,
     oldValue |-> c.oldValue, now |-> now, first |-> first, left |-> left]

RECURSIVE receivedAll(_, _, _)
receivedAll(changes, root, i) ==
    IF i > Len(changes) THEN <<>>
    ELSE <<Received(changes[i], _get(root, changes[i].path), history.running = 0,
                    changes[i].sub \in history.left)>>
         \o receivedAll(changes, root, i + 1)

\* subject.next, line 187, at its next observer: filter(), map() and the
\* observer's callback, which runs until the next observer is served.
DeliverNext ==
    /\ history.subs # <<>>
    /\ batchDepth = 0
    /\ \E s \in {Head(history.subs)} :
       \E changes \in {IF closed(observers, s) THEN <<>>
                       ELSE deliverTo(trieSet(observersTrie, history.data.path,
                                              Subject(history.mode, <<s>>)),
                                      observers, history.data, history.action, 1)} :
           /\ delivered' = changes
           /\ history' = [history EXCEPT
                  !.subs = Tail(@),
                  !.running = IF changes = <<>> THEN @ ELSE s,
                  !.log = @ \o receivedAll(changes, rootState, 1)]
    /\ UNCHANGED <<rootState, rootStateBeforeBatchStart, batchDepth, appliedBatchActions,
                   observersTrie, observers, initialState, emitted, lastCall, batchLog,
                   batchStartRoot, calls, thrown>>

\* The paths of the update trie that are not visited yet.
ToVisit == {history.order[k] : k \in (history.i + 1)..Len(history.order)}

\* The paths a callback sets and deletes.
CallbackPaths == {<<"a", "b">>}

\* The calls of ReentrantSpec. The subscribers subscribe, each with observe
\* or with observeChanges, then the user of the store makes a set or a
\* delete, or a batch of them, that notifies. This _notify is made visit by
\* visit and observer by observer; the callback of the observer that is
\* served calls set, delete, runInBatch or unsubscribes a subscriber. A
\* _notify that such a call makes runs as a whole, the callbacks it reaches
\* call nothing.
NextReentrant ==
    \/ \E s \in SubIds : \E path \in Paths(s) : \E kind \in {"observe", "observeChanges"} :
           calls = 0 /\ Subscribe(s, kind, path) /\ history' = NotNotifying
    \/ \E s \in SubIds :
           /\ history.running # 0
           /\ Unsubscribe(s)
           /\ history' = AfterCall({s}, (ToVisit \cap {observers[s].path}) \ DOMAIN observersTrie')
    \/ \E path \in IF NotYet THEN MutatedPaths ELSE CallbackPaths :
       \E action \in {SetAction(path, value) : value \in SetValues(path)} \cup {DeleteAction(path)} :
           /\ CanCall
           /\ ~NotYet \/ batchDepth > 0
           /\ Apply(action)
           /\ history' = AfterCall({}, {})
    \/ \E path \in MutatedPaths :
       \E action \in {SetAction(path, value) : value \in SetValues(path)} \cup {DeleteAction(path)} :
           NotYet /\ ApplyAndNotify(action)
    \/ CanCall /\ RunInBatch /\ history' = AfterCall({}, {})
    \/ /\ CanCall
       /\ ~NotYet \/ ~batchIsNotified(batchDepth - 1, appliedBatchActions)
       /\ RunInBatchFinally("none")
       /\ history' = AfterCall({}, {})
    \/ NotYet /\ FinallyAndNotify
    \/ VisitNext
    \/ DeliverNext

InitReentrant == \E state \in InitialStates : Constructed(state) /\ history = NotNotifying

ReentrantSpec == InitReentrant /\ [][NextReentrant]_vars

\* ------------------------------------------------------------ properties

\* A channel is a path of the observers trie that holds a subject.
Channels == DOMAIN observersTrie

\* p is a prefix of q, equal to q or an extension of q.
Related(p, q) == isPathPrefix(p, q) \/ isPathPrefix(q, p)

IsStrictPrefix(p, q) == Len(p) < Len(q) /\ isPathPrefix(q, p)

\* The number of subject.next calls at path P in the last call.
EmittedAt(P) == Cardinality({i \in DOMAIN emitted : emitted[i].path = P})

\* The change events (the initial event of a subscription apart) that
\* subscriber s received in the last call.
ChangesOf(s) == {i \in DOMAIN delivered : delivered[i].sub = s /\ ~delivered[i].initial}

SubscribersAt(P) == {s \in SubIds : observers[s].status = "active" /\ observers[s].path = P}

\* The last call ended an outermost runInBatch.
BatchCompleted == lastCall.op = "runInBatchFinally" /\ batchDepth = 0

\* The last call was a set or delete made outside a batch.
AppliedOutsideBatch == lastCall.op = "apply" /\ batchDepth = 0

\* The paths of the actions _apply pushed during the batch.
RecordedPaths == {l.path : l \in {e \in batchLog : e.recorded}}

\* The paths of the set and delete calls of the batch that replaced the root.
ChangedPaths == {l.path : l \in {e \in batchLog : e.changed}}

\* Channel P got exactly n events, and so did each of its subscribers.
ChannelGot(P, n) ==
    /\ EmittedAt(P) = n
    /\ \A s \in SubscribersAt(P) : Cardinality(ChangesOf(s)) = n

\* C1: when an outermost runInBatch completes, every channel receives at
\* most one event for the whole batch, and exactly one when its path is a
\* prefix of, equal to or an extension of the path of an action recorded in
\* the batch (however many recorded actions touch it).
C1_BatchNotifiesEachChannelOnce ==
    BatchCompleted =>
        /\ \A i \in DOMAIN emitted : emitted[i].path \in Channels
        /\ \A P \in Channels :
               ChannelGot(P, IF \E t \in RecordedPaths : Related(P, t) THEN 1 ELSE 0)

\* Two recorded actions on overlapping paths were notified together while
\* one channel was related to them and another was not.
C1_Witness ==
    /\ BatchCompleted
    /\ \E t1, t2 \in RecordedPaths : IsStrictPrefix(t1, t2)
    /\ \E P \in Channels : ChannelGot(P, 1)
    /\ \E P \in Channels : ChannelGot(P, 0)

\* C2: the oldValue an observeChanges subscriber at P receives when the
\* outermost batch completes is the value at P in the root as it was when
\* that batch began.
C2_OldValueIsTheValueAtBatchStart ==
    BatchCompleted =>
        \A i \in DOMAIN delivered :
            delivered[i].kind = "observeChanges"
                => delivered[i].oldValue = _get(batchStartRoot, delivered[i].path)

\* C3: outside a batch, a set of the value that is there already and a
\* delete of an absent path leave the root reference as it was and deliver
\* no event.
C3_NoOpOutsideBatchIsSilent ==
    (AppliedOutsideBatch /\ lastCall.pre \in {"same", "absent"}) =>
        /\ lastCall.touched = {}
        /\ RefEq(rootState, rootStateBeforeBatchStart)
        /\ emitted = <<>>
        /\ delivered = <<>>

\* A set of the value already there was made outside a batch while a
\* channel existed.
C3_Witness ==
    /\ AppliedOutsideBatch
    /\ lastCall.pre = "same"
    /\ Channels # {}

\* C4: when an outermost batch completes, every channel that is notified is
\* related to the path of a set or delete of the batch that replaced the
\* root reference; a batch of no-ops notifies nobody.
C4_NoOpInBatchNotifiesNobody ==
    BatchCompleted =>
        \A i \in DOMAIN emitted : \E t \in ChangedPaths : Related(emitted[i].path, t)

\* C5: outside a batch, a set or delete at t that replaces the root
\* reference delivers exactly one event to every channel at a prefix of t,
\* at t or below t, and the event carries the value now at the channel's
\* path (absent when the overwrite removed it).
C5_ChangeOutsideBatchNotifiesRelatedChannels ==
    AppliedOutsideBatch =>
        \A t \in lastCall.touched : \A P \in Channels :
            Related(P, t) =>
                /\ ChannelGot(P, 1)
                /\ \A i \in DOMAIN emitted :
                       emitted[i].path = P => emitted[i].value = _get(rootState, P)
                /\ \A i \in DOMAIN delivered :
                       delivered[i].path = P => delivered[i].value = _get(rootState, P)

\* A set or delete of an ancestor removed the value of a subscribed
\* descendant, which was notified with the absent value.
C5_Witness ==
    /\ AppliedOutsideBatch
    /\ \E t \in lastCall.touched : \E i \in DOMAIN delivered :
           /\ IsStrictPrefix(t, delivered[i].path)
           /\ delivered[i].value = Undefined

\* The paths touched by the mutation the last call delivered.
TouchedPaths ==
    IF lastCall.op = "apply" THEN lastCall.touched
    ELSE IF lastCall.op = "runInBatchFinally" THEN {l.path : l \in batchLog}
    ELSE {}

\* C6: a mutation (single action or completed batch) delivers no event to a
\* channel whose path is neither a prefix of, equal to nor an extension of a
\* path touched by its actions.
C6_UnrelatedChannelsGetNothing ==
    /\ \A i \in DOMAIN emitted : \E t \in TouchedPaths : Related(emitted[i].path, t)
    /\ \A i \in DOMAIN delivered :
           ~delivered[i].initial => \E t \in TouchedPaths : Related(delivered[i].path, t)

\* A mutation was delivered while a channel on a sibling subtree existed.
C6_Witness ==
    /\ emitted # <<>>
    /\ \E P \in Channels : \A t \in TouchedPaths : ~Related(P, t)

\* C7: within the delivery of one mutation, the events of a channel at P
\* come before the events of a channel at Q when P is a strict prefix of Q.
C7_AncestorsAreNotifiedFirst ==
    /\ \A i, j \in DOMAIN emitted :
           IsStrictPrefix(emitted[i].path, emitted[j].path) => i < j
    /\ \A i, j \in DOMAIN delivered :
           IsStrictPrefix(delivered[i].path, delivered[j].path) => i < j

\* One mutation was delivered to a channel and to a channel below it.
C7_Witness ==
    \E i, j \in DOMAIN delivered : IsStrictPrefix(delivered[i].path, delivered[j].path)

\* C8: while the batch depth is greater than zero no change event is
\* delivered (a subscription made in the batch gets its initial event only).
C8_NoEventWhileBatchIsOpen ==
    batchDepth > 0 =>
        /\ emitted = <<>>
        /\ \A i \in DOMAIN delivered : delivered[i].initial

\* A set or delete in an open batch replaced the value of a subscribed path.
C8_Witness ==
    /\ batchDepth > 0
    /\ lastCall.op = "apply"
    /\ \E t \in lastCall.touched : \E P \in Channels : Related(P, t)

\* The paths of the actions waiting in appliedBatchActions.
PendingPaths == {appliedBatchActions[i].path : i \in DOMAIN appliedBatchActions}

\* C9: the completion of a nested runInBatch notifies nobody and keeps the
\* recorded actions pending; they are notified together when the depth
\* returns to zero, one event for each related channel.
C9_NestedBatchIsMerged ==
    /\ (lastCall.op = "runInBatchFinally" /\ batchDepth > 0) =>
           /\ emitted = <<>>
           /\ delivered = <<>>
           /\ PendingPaths = RecordedPaths
    /\ BatchCompleted =>
           /\ appliedBatchActions = <<>>
           /\ \A t \in RecordedPaths : \A P \in Channels : Related(P, t) => EmittedAt(P) = 1

\* A nested runInBatch completed with a recorded action and a channel
\* related to it.
C9_Witness ==
    /\ lastCall.op = "runInBatchFinally"
    /\ batchDepth > 0
    /\ \E t \in PendingPaths : \E P \in Channels : Related(P, t)

\* C10: a set or delete made in a batch that replaces the root reference
\* while a channel exists is recorded for the batch, and when the outermost
\* batch completes every channel related to its path receives an event.
C10_ChangingActionIsNotified ==
    /\ \A l \in batchLog : (l.changed /\ l.observed) => l.recorded
    /\ BatchCompleted =>
           \A l \in batchLog : (l.changed /\ l.observed) =>
               \A P \in Channels : Related(P, l.path) => EmittedAt(P) >= 1

\* The last call ended an outermost runInBatch whose batchFn raised an error.
OutermostBodyRaised ==
    lastCall.op = "runInBatchFinally" /\ history.depth = 1 /\ history.raised # "none"

\* C11: when the batchFn of an outermost runInBatch raises an error, the
\* root its mutations produced stays the state, the actions recorded before
\* the error are notified (one event for each related channel) and none
\* stays pending, the batch depth is zero again, and runInBatch throws the
\* error batchFn raised.
C11_RaisingBodyIsNotifiedAndRethrown ==
    OutermostBodyRaised =>
        /\ rootState = history.root
        /\ appliedBatchActions = <<>>
        /\ \A t \in RecordedPaths : \A P \in Channels : Related(P, t) => ChannelGot(P, 1)
        /\ batchDepth = 0
        /\ thrown = history.raised

\* The batchFn of an outermost runInBatch raised after a recorded set or
\* delete replaced the root, and a related channel got its event.
C11_Witness ==
    /\ OutermostBodyRaised
    /\ ~RefEq(rootState, batchStartRoot)
    /\ \E t \in RecordedPaths \cap ChangedPaths : \E P \in Channels :
           Related(P, t) /\ ChannelGot(P, 1)

\* C12: a subscribe to observe(P) or observeChanges(P) delivers, within the
\* call, exactly one event, to the new subscriber only: the initial event,
\* with the value now at P (absent when nothing is there), and for
\* observeChanges with an absent oldValue and the paths [[]]; this at any
\* batch depth.
C12_SubscribeDeliversOneInitialEvent ==
    history.op = "subscribe" =>
        /\ emitted = <<>>
        /\ Len(delivered) = 1
        /\ delivered[1].sub = history.sub
        /\ delivered[1].path = history.path
        /\ delivered[1].initial
        /\ delivered[1].value = _get(rootState, history.path)
        /\ delivered[1].kind = "observeChanges" =>
               /\ delivered[1].oldValue = Undefined
               /\ delivered[1].paths = << <<>> >>

\* An observeChanges subscription was made in an open batch at a path that a
\* delete of the batch had removed.
C12_Witness ==
    /\ history.op = "subscribe"
    /\ batchDepth > 0
    /\ delivered[1].kind = "observeChanges"
    /\ delivered[1].value = Undefined
    /\ _get(batchStartRoot, history.path) # Undefined

\* The paths at which somebody is subscribed.
SubscribedPaths == {observers[s].path : s \in {x \in SubIds : observers[x].status = "active"}}

\* C13: in every state the observers trie holds a subject at P exactly when
\* a subscriber is subscribed at P itself, and the observers of that subject
\* are the subscribers at P; a subscriber above or below P makes no subject
\* at P and keeps none there.
C13_ChannelIffSubscriberAtThePath ==
    /\ Channels = SubscribedPaths
    /\ \A P \in Channels :
           {observersTrie[P].observers[i] : i \in DOMAIN observersTrie[P].observers}
               = SubscribersAt(P)

\* Subscribers are at the root and at ["a","b"], and ["a"], which lies
\* between them, has no subject.
C13_Witness ==
    /\ <<>> \in SubscribedPaths
    /\ <<"a", "b">> \in SubscribedPaths
    /\ <<"a">> \notin Channels
    /\ Cardinality(Channels) = 2

\* The subscribers whose subscription was ended in the way `how` and who
\* have not subscribed since.
EndedBy(how) == {s \in SubIds : history.ended[s].how = how}

\* Every subscriber at a path above, at or below a path the last set or
\* delete replaced got one event, and no one else got any.
SubscribersGotTheirEvent ==
    \A s \in SubIds :
        Cardinality(ChangesOf(s)) =
            IF /\ observers[s].status = "active"
               /\ \E t \in lastCall.touched : Related(observers[s].path, t)
            THEN 1 ELSE 0

\* C14: an unsubscribe at P of the last subscriber there removes the subject
\* at P and no other, an unsubscribe of another than the last removes none;
\* and the subscribers that stay, above and below P too, get their event for
\* every later set or delete on their paths.
C14_UnsubscribeRemovesOnlyItsOwnChannel ==
    /\ history.op = "unsubscribe" =>
           /\ history.path \in history.channels
           /\ Channels = IF SubscribersAt(history.path) = {}
                         THEN history.channels \ {history.path}
                         ELSE history.channels
    /\ (lastCall.op = "apply" /\ EndedBy("unsubscribe") # {}) => SubscribersGotTheirEvent

\* The last subscriber at a path unsubscribed, and a later set or delete
\* was delivered to a subscriber strictly below that path.
C14_Witness ==
    /\ lastCall.op = "apply"
    /\ \E gone \in EndedBy("unsubscribe") : \E s \in SubIds :
           /\ history.ended[gone].path \notin Channels
           /\ observers[s].status = "active"
           /\ IsStrictPrefix(history.ended[gone].path, observers[s].path)
           /\ Cardinality(ChangesOf(s)) = 1

\* C15: after reset(newRoot) the state is newRoot itself, the call delivered
\* no event, no subject is left in the trie and every subscriber there was
\* is subscribed no more; and a subscriber that the reset ended gets no
\* event for any later set or delete.
C15_ResetEndsEverySubscription ==
    /\ history.op = "reset" =>
           /\ rootState = history.newRoot
           /\ RefEq(rootState, history.newRoot)
           /\ emitted = <<>>
           /\ delivered = <<>>
           /\ trieIsEmpty(observersTrie)
           /\ \A s \in SubIds : observers[s].status = "idle"
    /\ \A s \in EndedBy("reset") :
           /\ observers[s].status = "idle"
           /\ \A i \in DOMAIN delivered : delivered[i].sub # s

\* A reset ended a subscription, and a later set or delete replaced the
\* root on a path above, at or below the path of that subscription.
C15_Witness ==
    /\ lastCall.op = "apply"
    /\ \E s \in EndedBy("reset") : \E t \in lastCall.touched :
           Related(history.ended[s].path, t)

\* C16: a subscribe at P that finds no other subscriber at P finds no
\* subject there either, whatever subscriptions at P have ended before (by
\* unsubscribe or by reset): it makes a subject of its own, with itself as
\* the only observer and the flag of its own kind, and gets the value now at
\* P as its initial event; a later set or delete on its path is delivered to
\* it and to no subscriber whose subscription has ended.
C16_TornDownChannelIsNotReused ==
    /\ (history.op = "subscribe" /\ SubscribersAt(history.path) = {history.sub}) =>
           /\ history.path \notin history.channels
           /\ observersTrie[history.path]
                  = Subject(KindOf(history.sub) = "observeChanges", <<history.sub>>)
           /\ Len(delivered) = 1
           /\ delivered[1].initial
           /\ delivered[1].value = _get(rootState, history.path)
    /\ lastCall.op = "apply" =>
           /\ SubscribersGotTheirEvent
           /\ \A i \in DOMAIN delivered : history.ended[delivered[i].sub].how = "none"

\* The subscription of one subscriber at P was ended by a reset, another
\* subscribed at P afterwards, and a later set or delete touching P was
\* delivered to the new subscriber and not to the old one.
C16_Witness ==
    /\ lastCall.op = "apply"
    /\ \E old \in EndedBy("reset") : \E new \in SubIds :
           /\ observers[new].status = "active"
           /\ observers[new].path = history.ended[old].path
           /\ Cardinality(ChangesOf(new)) = 1
           /\ ChangesOf(old) = {}

\* The same after the last subscriber at P had unsubscribed.
C16_WitnessAfterUnsubscribe ==
    /\ lastCall.op = "apply"
    /\ \E old \in EndedBy("unsubscribe") : \E new \in SubIds :
           /\ observers[new].status = "active"
           /\ observers[new].path = history.ended[old].path
           /\ SubscribersAt(observers[new].path) = {new}
           /\ Cardinality(ChangesOf(new)) = 1
           /\ ChangesOf(old) = {}

\* The last set found at its path the very value it was given.
SetOfTheSameValue == RefEq(_get(history.root, history.path), history.value)

\* The compareFn of the last set found the values equal.
FoundEqual == history.compareFn # "absent" /\ resultOf(history.compareFn, history.args)

\* C17: a set(path, value, compareFn) that returns replaces the root exactly
\* when compareFn is absent or answers false and the value at path is not
\* the given value itself; then every channel above, at or below path gets
\* one event, otherwise the root stays the same reference and no event is
\* delivered. compareFn is called with the value at path, the new value and
\* the path.
C17_CompareFnDecidesTheSet ==
    (history.op = "set" /\ thrown = "none") =>
        /\ ~RefEq(rootState, history.root) <=> (~FoundEqual /\ ~SetOfTheSameValue)
        /\ (~FoundEqual /\ ~SetOfTheSameValue) =>
               \A P \in Channels : Related(P, history.path) => ChannelGot(P, 1)
        /\ (FoundEqual \/ SetOfTheSameValue) =>
               /\ rootState = history.root
               /\ emitted = <<>>
               /\ delivered = <<>>
        /\ history.compareFn # "absent" =>
               history.args = <<_get(history.root, history.path), history.value, history.path>>

\* A compareFn that answers true kept a new value out of the state while a
\* channel at the path existed.
C17_Witness ==
    /\ history.op = "set"
    /\ FoundEqual
    /\ ~SetOfTheSameValue
    /\ history.path \in Channels

\* A compareFn that answers false was given the value already at the path,
\* and nothing was written.
C17_WitnessOfFalse ==
    /\ history.op = "set"
    /\ history.compareFn = "false"
    /\ SetOfTheSameValue
    /\ Channels # {}

\* C18: at any batch depth, after a set(p, v) with v not absent that returns
\* without error get(p) is v by reference, also where intermediate nodes of p
\* did not exist, and after a delete(p) that returns without error get(p) is
\* absent.
C18_RoundTrip ==
    thrown = "none" =>
        /\ (history.type = "set" /\ history.value # Undefined)
               => RefEq(_get(rootState, history.path), history.value)
        /\ history.type = "delete" => _get(rootState, history.path) = Undefined

\* The paths of the own properties of a tree, the root included.
RECURSIVE PathsOf(_)
PathsOf(v) ==
    {<<>>} \cup (IF IsObject(v)
                 THEN UNION {{<<k>> \o q : q \in PathsOf(v.m[k])} : k \in DOMAIN v.m}
                 ELSE {})

\* The last call was a set or delete that returned without error.
Succeeded == history.type \in {"set", "delete"} /\ thrown = "none"

\* The nodes of the tree off the root-to-p path: neither on it nor below p.
OffPath(tree, p) == {q \in PathsOf(tree) : ~isPathPrefix(p, q) /\ ~isPathPrefix(q, p)}

\* The containers on the root-to-p path, the root included.
OnPath(p) == {SubSeq(p, 1, i) : i \in 0..(Len(p) - 1)}

\* C19: after a successful set or delete at path p every subtree of the new
\* tree off the root-to-p path is the same reference as the subtree at that
\* place of the old tree, and when the tree was cloned every node on the
\* root-to-p path is a reference the old tree does not hold.
C19_StructuralSharing ==
    Succeeded =>
        /\ \A q \in OffPath(rootState, history.path) :
               RefEq(_get(rootState, q), _get(history.root, q))
        /\ (Len(history.path) > 0 /\ ~RefEq(rootState, history.root)) =>
               \A q \in OnPath(history.path) :
                   /\ IsObject(_get(rootState, q))
                   /\ _get(rootState, q).id \notin IdsOf(history.root) \cup IdsOf(history.value)

\* A set that cloned the path to an element beyond the length of an array
\* and left the record the array holds shared.
C19_Witness ==
    /\ Succeeded
    /\ history.path = <<"a", "2">>
    /\ isArray(_get(history.root, <<"a">>))
    /\ ~RefEq(rootState, history.root)
    /\ ~RefEq(_get(rootState, <<"a">>), _get(history.root, <<"a">>))
    /\ IsObject(_get(rootState, <<"a", "0">>))
    /\ <<"a", "0", "b">> \in OffPath(rootState, history.path)

\* The objects reachable from a value, the value included.
RECURSIVE Nodes(_)
Nodes(v) ==
    IF IsObject(v) THEN {v} \cup UNION {Nodes(v.m[k]) : k \in DOMAIN v.m} ELSE {}

\* Two views of objects hold the same keys with the same values.
SameContent(x, y) ==
    /\ x.t = y.t
    /\ x.n = y.n
    /\ DOMAIN x.m = DOMAIN y.m
    /\ \A k \in DOMAIN x.m : RefEq(x.m[k], y.m[k])

\* Every object as it was when store.state returned a root that holds it,
\* and as it is under the current root.
Seen == UNION {Nodes(root) : root \in history.roots \cup {rootState, history.value}}

\* C20: an apply of a set, a delete or a batch action, successful or failing,
\* leaves the tree it is applied to and every object reachable from it with
\* the keys and values they had: an object seen under a root that store.state
\* returned earlier has the same content wherever it is seen later (under
\* the current root, in the tree apply returned), and a failing call leaves
\* the root in place.
C20_ApplyIsPure ==
    /\ \A x \in Seen : \A y \in Seen : x.id = y.id => SameContent(x, y)
    /\ thrown # "none" => rootState = history.root

\* An apply of a batch of two sets through an array returned a new tree: the
\* root holds the array as it was, the tree holds a longer one, and both hold
\* the record of the array's first element changed in the tree only.
C20_Witness ==
    /\ history.type = "batch"
    /\ thrown = "none"
    /\ rootState = history.root
    /\ isArray(_get(rootState, <<"a">>))
    /\ _get(rootState, <<"a">>).n = 2
    /\ _get(history.value, <<"a">>).n = 3
    /\ _get(rootState, <<"a", "0", "b">>) = Num(1)
    /\ _get(history.value, <<"a", "0", "b">>) = Null
    /\ _get(rootState, <<"a", "1">>) = _get(history.value, <<"a", "1">>)

\* The last call was a set or delete that threw an error.
Failed == history.type \in {"set", "delete"} /\ thrown # "none"

\* C21: a set or delete that raises an error leaves store.state the
\* reference it was, delivers no event, and in a batch adds nothing to the
\* accumulated actions.
C21_FailingCallChangesNothing ==
    Failed =>
        /\ thrown \in {"InvalidRootType", "InvalidArrayIndex", "NonRecordParent", "EmptyPath",
                       "ArrayElementDelete"}
        /\ rootState = history.root
        /\ emitted = <<>>
        /\ delivered = <<>>
        /\ appliedBatchActions = history.actions

\* In a batch that has changed the state under a subscriber, a delete of an
\* array element fails.
C21_Witness ==
    /\ Failed
    /\ thrown = "ArrayElementDelete"
    /\ batchDepth > 0
    /\ observersTrie # EmptyTrie
    /\ appliedBatchActions # <<>>
    /\ ~RefEq(rootState, rootStateBeforeBatchStart)

\* C22: a set at the empty path of a value that is not absent returns and
\* makes the value the root, by reference, when the value is a record; when
\* it is null, an array, a string, a number, a boolean, a big integer or a
\* function it fails with the error of a root that is no record.
C22_RootMustBeARecord ==
    (history.type = "set" /\ history.path = <<>> /\ history.value # Undefined) =>
        IF history.value.t = "record"
        THEN thrown = "none" /\ rootState = history.value
        ELSE /\ history.value.t \in {"null", "array", "string", "number", "boolean", "bigint",
                                     "function"}
             /\ thrown = "InvalidRootType"

\* A set at the empty path made a new record the root.
C22_Witness ==
    /\ history.type = "set"
    /\ history.path = <<>>
    /\ history.value.t = "record"
    /\ thrown = "none"
    /\ RefEq(rootState, history.value)
    /\ ~RefEq(rootState, history.root)

\* The last call was a set of undefined.
SetOfAbsent == history.type = "set" /\ history.value = Undefined

\* C23: a set of absent at a path does what a delete at that path does in the
\* same state: the same root, the same error, the same events, the same
\* snapshot, and in a batch it is accumulated when the delete would be; at
\* the empty path both fail with the error of an empty path.
C23_SetOfAbsentIsDelete ==
    SetOfAbsent =>
        /\ rootState = history.twin.root
        /\ thrown = history.twin.err
        /\ emitted = history.twin.emits
        /\ delivered = history.twin.delivered
        /\ rootStateBeforeBatchStart = history.twin.before
        /\ appliedBatchActions =
               IF history.twin.delayed
               THEN Append(history.actions, SetAction(history.path, Undefined))
               ELSE history.actions
        /\ history.path = <<>> => thrown = "EmptyPath" /\ history.twin.err = "EmptyPath"

\* A set of undefined removed a value from a record under a subscriber that
\* got the event.
C23_Witness ==
    /\ SetOfAbsent
    /\ thrown = "none"
    /\ ~RefEq(rootState, history.root)
    /\ _get(history.root, history.path) # Undefined
    /\ _get(rootState, history.path) = Undefined
    /\ delivered # <<>>

\* The node that holds the leaf of the last call's path in the tree the call
\* found (undefined where the path is empty or the node is missing).
Container ==
    IF Len(history.path) = 0 THEN Undefined
    ELSE _get(history.root, SubSeq(history.path, 1, Len(history.path) - 1))

\* The last call was a delete whose leaf's container is an array.
DeleteInArray == history.type = "delete" /\ isArray(Container)

\* C24, as stated: a delete whose leaf's container is an array fails with the
\* error of an array element delete, whatever the leaf key.
C24_DeleteInArrayFails == DeleteInArray => thrown = "ArrayElementDelete"

\* C24, amended: a delete whose leaf's container is an array fails with the
\* error of an array element delete when get(path) was not absent, and
\* returns the tree it found, without error, when get(path) was absent.
C24_DeleteOfPresentArrayElementFails ==
    DeleteInArray =>
        IF _get(history.root, history.path) # Undefined
        THEN thrown = "ArrayElementDelete"
        ELSE thrown = "none" /\ rootState = history.root

\* A delete of the first element of an array failed.
C24_Witness ==
    /\ DeleteInArray
    /\ history.path = <<"a", "0">>
    /\ IsObject(_get(history.root, history.path))
    /\ thrown = "ArrayElementDelete"

\* The node of the tree the last call found at the first k keys of its path.
NodeAt(k) == _get(history.root, SubSeq(history.path, 1, k))

\* The walk along the last call's path meets an absent node, intermediate or
\* leaf: every node before it is a record or an array.
MeetsAbsent ==
    \E k \in 1..Len(history.path) :
        /\ NodeAt(k) = Undefined
        /\ \A j \in 1..(k - 1) : IsObject(NodeAt(j))

\* C25: a delete whose leaf is absent, or that meets an absent intermediate
\* node, returns the tree reference it found and raises no error, in a record
\* and in an array.
C25_DeleteOfAbsentIsNoOp ==
    (history.type = "delete" /\ MeetsAbsent) => thrown = "none" /\ rootState = history.root

\* A delete beyond the length of an array returned the tree it found.
C25_Witness ==
    /\ DeleteInArray
    /\ history.path = <<"a", "2">>
    /\ NodeAt(2) = Undefined
    /\ thrown = "none"
    /\ rootState = history.root

\* A delete below a missing intermediate node returned the tree it found.
C25_WitnessOfIntermediate ==
    /\ history.type = "delete"
    /\ history.path = <<"a", "0", "b">>
    /\ IsObject(NodeAt(1))
    /\ NodeAt(2) = Undefined
    /\ thrown = "none"
    /\ rootState = history.root

\* The last call was a set of a value: no set of undefined, which is a delete.
SetOfValue == history.type = "set" /\ history.value # Undefined

\* The walk of the last call's path gets to the node at its first k keys:
\* the nodes before it are records or arrays.
Reaches(k) == \A j \in 0..(k - 1) : IsObject(NodeAt(j))

\* C26: a set whose path walks through a scalar or null before it is
\* exhausted fails with the error of a non-record parent, and a set whose
\* path addresses an array, as intermediate or as leaf container, with a key
\* that is no non-negative integer fails with the error of an invalid array
\* index; of two such faults on a path the first one met decides.
C26_SetThroughScalarOrBadIndexFails ==
    SetOfValue =>
        \A k \in 0..(Len(history.path) - 1) :
            (Reaches(k) /\ \A j \in 0..(k - 1) :
                               isArray(NodeAt(j)) => IsElementKey(history.path[j + 1])) =>
                /\ (k > 0 /\ NodeAt(k) # Undefined /\ ~IsObject(NodeAt(k)))
                       => thrown = "NonRecordParent"
                /\ (isArray(NodeAt(k)) /\ ~IsElementKey(history.path[k + 1]))
                       => thrown = "InvalidArrayIndex"

\* A delete of a path with two keys or more.
DeleteThrough == history.type = "delete" /\ Len(history.path) > 1

\* What deleteInPath found on the way to the leaf of the last delete, and what
\* it says of it.
Reported == deleteWalk(history.root, history.path, 1)

\* The delete meets at path[1..k] a node that is there and is neither a
\* record nor an array.
Offends(k) == Reaches(k) /\ NodeAt(k) # Undefined /\ ~IsObject(NodeAt(k))

\* C27: a delete whose path walks through an existing node that is neither
\* a record nor an array fails with NonRecordParent, and the error names the
\* sub-path that ends at that node and the node's type, '<null>' for null.
C27_DeleteThroughScalarReportsItsPath ==
    DeleteThrough =>
        \A k \in 1..(Len(history.path) - 1) :
            Offends(k) =>
                /\ thrown = "NonRecordParent"
                /\ Reported.Path = SubSeq(history.path, 1, k)
                /\ Reported.type = typeLabel(NodeAt(k))

\* The paths of the action the last call notified: the path of a set or
\* delete made outside a batch, the paths of the actions of a completed batch.
NotifiedPaths ==
    IF lastCall.op = "apply" THEN lastCall.touched
    ELSE IF lastCall.op = "runInBatchFinally" THEN RecordedPaths
    ELSE {}

\* The paths of T at or below P, without the prefix P.
Stripped(P, T) == {SubSeq(t, Len(P) + 1, Len(t)) : t \in {u \in T : isPathPrefix(u, P)}}

\* The paths of S that extend no other path of S.
dedupePrefixes(S) == {p \in S : \A q \in S : ~IsStrictPrefix(q, p)}

\* The list holds the paths of S, each of them once.
ListsExactly(list, S) ==
    Len(list) = Cardinality(S) /\ {list[i] : i \in DOMAIN list} = S

\* C28: every event but the initial one that an observeChanges subscriber at
\* P receives carries as paths the paths touched by the action (by all
\* actions of the batch) that are at or below P, with the prefix P taken off
\* and every path that extends another one of them left out.
C28_PathsAreTheShortestRelativePaths ==
    \A i \in DOMAIN delivered :
        (delivered[i].kind = "observeChanges" /\ ~delivered[i].initial) =>
            ListsExactly(delivered[i].paths,
                         dedupePrefixes(Stripped(delivered[i].path, NotifiedPaths)))

\* A batch that touched a path and an extension of it was delivered to a
\* subscriber at the root, which got the shorter path only.
C28_Witness ==
    /\ BatchCompleted
    /\ \E t1, t2 \in NotifiedPaths : IsStrictPrefix(t1, t2)
    /\ \E i \in DOMAIN delivered :
           /\ delivered[i].kind = "observeChanges"
           /\ delivered[i].path = <<>>
           /\ delivered[i].paths = <<<<"a">>>>

\* A set below the path of a subscriber was delivered with the rest of its
\* path.
C28_WitnessOfSubPath ==
    /\ AppliedOutsideBatch
    /\ \E i \in DOMAIN delivered :
           /\ delivered[i].kind = "observeChanges"
           /\ delivered[i].path = <<>>
           /\ delivered[i].paths = <<<<"a", "b">>>>

\* The events, the initial ones apart, that observeChanges subscribers got in
\* the last call.
ChangeEvents ==
    {i \in DOMAIN delivered : delivered[i].kind = "observeChanges" /\ ~delivered[i].initial}

\* The notified action touched nothing at or below P: what it touched of the
\* node at P it touched by replacing an ancestor of P.
OnlyAncestorsReplaced(P) == \A t \in NotifiedPaths : ~isPathPrefix(t, P)

C29_WitnessOfPresentNode ==
    \E i \in ChangeEvents :
        /\ delivered[i].path = <<"a", "b">>
        /\ NotifiedPaths = {<<>>}
        /\ delivered[i].value # Undefined
        /\ delivered[i].paths = <<>>

\* The subscribers that exclude paths.
Excluding == {s \in SubIds : observers[s].status = "active" /\ Len(observers[s].pathsToExclude) > 0}

\* Every path of the notified action is one of the paths s excludes.
AllExcluded(s) ==
    \A t \in NotifiedPaths : \E i \in DOMAIN observers[s].pathsToExclude :
        observers[s].pathsToExclude[i] = t

\* C30: of a mutation that is notified to its channel, a subscriber that
\* excludes paths gets no event when every path the action(s) touched is
\* one of its excluded paths, and gets the event otherwise (so when a strict
\* prefix or a strict extension of an excluded path is touched).
C30_ExcludedIffEveryTouchedPathIsExcluded ==
    \A s \in Excluding :
        EmittedAt(observers[s].path) > 0 =>
            Cardinality(ChangesOf(s)) = IF AllExcluded(s) THEN 0 ELSE 1

\* A batch touched an excluded path and an extension of it that is not
\* excluded: the subscriber got the event.
C30_Witness ==
    \E s \in Excluding :
        /\ BatchCompleted
        /\ observers[s].pathsToExclude = <<<<"a">>>>
        /\ NotifiedPaths = {<<"a">>, <<"a", "b">>}
        /\ Cardinality(ChangesOf(s)) = 1

\* A set at an excluded path went to the channel while the subscriber that
\* excludes the path got nothing.
C30_WitnessOfExcluded ==
    \E s \in Excluding :
        /\ EmittedAt(observers[s].path) = 1
        /\ NotifiedPaths # {}
        /\ AllExcluded(s)
        /\ ChangesOf(s) = {}

\* C31: of a set or delete outside a batch, every event an observeChanges
\* subscriber at P gets carries as oldValue the very value get(P) returned
\* before the call and as value the very value get(P) returns after it, and
\* the subscribers of one path, observe or observeChanges, get the same
\* value.
C31_EventCarriesValuesBeforeAndAfter ==
    history.op \in {"set", "delete"} =>
        \A i \in DOMAIN delivered :
            /\ delivered[i].kind = "observeChanges" =>
                   /\ RefEq(delivered[i].oldValue, _get(history.root, delivered[i].path))
                   /\ RefEq(delivered[i].value, _get(rootState, delivered[i].path))
            /\ \A j \in DOMAIN delivered :
                   delivered[j].path = delivered[i].path
                       => RefEq(delivered[j].value, delivered[i].value)

\* A set or delete changed the value at a path that an observe and an
\* observeChanges subscriber share, and both got the event.
C31_Witness ==
    /\ history.op \in {"set", "delete"}
    /\ \E i, j \in DOMAIN delivered :
           /\ delivered[i].path = delivered[j].path
           /\ delivered[i].kind = "observeChanges"
           /\ delivered[j].kind = "observe"
           /\ ~RefEq(delivered[i].oldValue, delivered[i].value)
           /\ delivered[i].oldValue # Undefined

\* The trees a left fold of apply over the actions of the last batch goes
\* through, from the tree before actions[i] on; an action that throws ends
\* the fold.
RECURSIVE FoldLeft(_, _, _)
FoldLeft(tree, i, firstId) ==
    IF i > Len(history.actions) THEN <<tree>>
    ELSE LET r == apply(tree, history.actions[i], firstId)
         IN  IF r.err # "none" THEN <<tree>>
             ELSE <<tree>> \o FoldLeft(r.state, i + 1, NextFreeId(r.state, firstId))

\* The trees of the fold of the last batch: Steps[i + 1] is the tree after
\* i actions.
Steps == FoldLeft(history.root, 1, FreshId + 1)

\* Every action of the last batch returned the tree it was applied to.
EveryActionIsNoOp == \A i \in 1..(Len(Steps) - 1) : RefEq(Steps[i + 1], Steps[i])

\* The fold went through every action, and the tree apply returned is its
\* last tree.
IsTheLeftFold ==
    /\ Len(Steps) = Len(history.actions) + 1
    /\ history.result = Steps[Len(Steps)]

\* C33, as stated: an apply of a batch that returns gives the tree of the
\* left fold of apply over its actions, and that tree is the tree it was
\* applied to, by reference, exactly when every action was a no-op on the
\* tree it was applied to.
C33_BatchIsALeftFold ==
    thrown = "none" =>
        /\ IsTheLeftFold
        /\ RefEq(history.result, history.root) <=> EveryActionIsNoOp

\* An action of the last batch set the root to the tree the batch was
\* applied to.
RootIsSetBack ==
    \E i \in 1..Len(history.actions) :
        /\ history.actions[i].type = "set"
        /\ history.actions[i].path = <<>>
        /\ RefEq(history.actions[i].value, history.root)

\* C33, amended: an apply of a batch that returns gives the tree of the left
\* fold; when every action was a no-op it is the tree the batch was applied
\* to, and when it is that tree every action was a no-op or an action set
\* the root to that very tree.
C33_BatchIsALeftFoldAndNoOpsKeepTheTree ==
    thrown = "none" =>
        /\ IsTheLeftFold
        /\ EveryActionIsNoOp => RefEq(history.result, history.root)
        /\ RefEq(history.result, history.root) => (EveryActionIsNoOp \/ RootIsSetBack)

\* A batch of three actions, the second of which changed the tree while the
\* others did not, returned another tree.
C33_Witness ==
    /\ thrown = "none"
    /\ Len(history.actions) = 3
    /\ RefEq(Steps[2], Steps[1])
    /\ ~RefEq(Steps[3], Steps[2])
    /\ RefEq(Steps[4], Steps[3])
    /\ ~RefEq(history.result, history.root)

\* A batch of no-ops returned the tree it was applied to.
C33_WitnessOfNoOps ==
    /\ thrown = "none"
    /\ Len(history.actions) = 3
    /\ EveryActionIsNoOp
    /\ RefEq(history.result, history.root)

\* The paths of a list.
PathsIn(list) == {list[i] : i \in DOMAIN list}

ComesBefore(p, q) ==
    \/ IsStrictPrefix(p, q)
    \/ \E k \in 1..Len(p) :
           /\ k <= Len(q)
           /\ \A j \in 1..(k - 1) : p[j] = q[j]
           /\ localeCompare(p[k], q[k]) < 0

Detailed(trie, P) == P \in DOMAIN trie /\ trie[P].isAllDetailsMode

\* One step of the store and the flags of its channels: a subscriber that
\* comes turns the flag of its channel on when it asks for the details and
\* leaves it as it is otherwise (off for a channel this subscriber
\* creates); a flag that is on stays on while the channel stays; and every
\* event a channel emits carries the old value when its flag is on and none
\* when it is off.
DetailFlagStep ==
    /\ \A s \in SubIds :
           (observers[s].status = "idle" /\ observers'[s].status = "active") =>
               (Detailed(observersTrie', observers'[s].path)
                    <=> (Detailed(observersTrie, observers'[s].path)
                         \/ observers'[s].kind = "observeChanges"))
    /\ \A P \in DOMAIN observersTrie \cap DOMAIN observersTrie' :
           Detailed(observersTrie, P) => Detailed(observersTrie', P)
    /\ \A i \in DOMAIN emitted' :
           emitted'[i].oldValue = IF Detailed(observersTrie', emitted'[i].path)
                                  THEN _get(rootState, emitted'[i].path)
                                  ELSE Undefined

\* C36: the detail flag of a channel is monotone: once a subscriber that
\* asks for old value and paths has subscribed at P, the channel at P
\* computes them for every later event until it is torn down, also when that
\* subscriber has left and others remain; a channel created after a
\* tear-down starts with the flag off.
C36_DetailFlagIsMonotone == [][DetailFlagStep]_vars

\* The observeChanges subscriber of a path has unsubscribed, an observe
\* subscriber remains, and the channel emitted an event with the old value.
C36_Witness ==
    /\ history.ended[1] = Ended("unsubscribe", <<"a", "b">>)
    /\ observers[1].status = "idle"
    /\ observers[2].status = "active"
    /\ observers[2].path = <<"a", "b">>
    /\ \E i \in DOMAIN emitted :
           emitted[i].path = <<"a", "b">> /\ emitted[i].oldValue # Undefined

\* A channel that was torn down with its flag on was created again by an
\* observe subscriber and emitted an event without the old value.
C36_WitnessOfNewChannel ==
    /\ history.ended[1] = Ended("unsubscribe", <<"a", "b">>)
    /\ history.ended[2] = NotEnded
    /\ observers[1].status = "idle"
    /\ observers[2].path = <<"a", "b">>
    /\ \E i \in DOMAIN emitted :
           /\ emitted[i].path = <<"a", "b">>
           /\ emitted[i].oldValue = Undefined
           /\ _get(rootStateBeforeBatchStart, <<"a", "b">>) # Undefined

\* C37: the batch depth is the number of runInBatch calls that are
\* executing, and so never negative; a runInBatch call whose body returned
\* or raised leaves the depth it found; and between the calls of the store
\* the list of accumulated batch actions is empty whenever the depth is zero.
C37_DepthCountsTheOpenBatches ==
    /\ batchDepth \in Nat
    /\ batchDepth = Len(history.open)
    /\ history.op = "runInBatchFinally" => batchDepth = history.found
    /\ batchDepth = 0 => appliedBatchActions = <<>>

\* The body of a nested runInBatch raised after a set of its own was
\* accumulated: the depth is back at one and the action is still waiting.
C37_Witness ==
    /\ history.op = "runInBatchFinally"
    /\ history.raised # "none"
    /\ history.found = 1
    /\ batchDepth = 1
    /\ appliedBatchActions # <<>>

\* The outermost runInBatch ended after its body raised: the depth is zero
\* and the accumulated actions were notified and dropped.
C37_WitnessOfOutermost ==
    /\ history.op = "runInBatchFinally"
    /\ history.raised # "none"
    /\ batchDepth = 0
    /\ emitted # <<>>

\* The set and delete calls of the batch that were made while no channel
\* existed, and those made while one did.
Unobserved == {l \in batchLog : ~l.observed}

Observed == {l \in batchLog : l.observed}

\* C39: a set or delete that changes the state inside a batch while the
\* observers trie is empty is applied and not recorded in the batch; a
\* subscriber that subscribes later in the batch gets no event for it when
\* the batch completes: every event it gets then belongs to an action
\* recorded while a channel existed, at a path above, at or below its own.
C39_UnobservedChangeIsNotRecorded ==
    /\ \A l \in Unobserved : l.changed /\ ~l.recorded
    /\ RecordedPaths \subseteq {l.path : l \in Observed}
    /\ BatchCompleted =>
           \A s \in SubIds :
               ChangesOf(s) # {} =>
                   \E l \in Observed : l.recorded /\ Related(observers[s].path, l.path)

\* A batch changed the value at a/b while nobody observed, a subscriber came
\* to a/b within the batch, and the batch completed without an event.
C39_Witness ==
    /\ BatchCompleted
    /\ \E l \in Unobserved : l.path = <<"a", "b">>
    /\ SubscribersAt(<<"a", "b">>) # {}
    /\ _get(rootState, <<"a", "b">>) # _get(batchStartRoot, <<"a", "b">>)
    /\ delivered = <<>>

\* What the subscribers received in the _notify of ReentrantSpec, and those
\* of them that a subscriber with detail received.
Log == {history.log[k] : k \in DOMAIN history.log}

DetailedLog == {e \in Log : e.kind = "observeChanges"}

\* A callback called set, delete or runInBatch since the _notify began.
CallbackCalled == ~NotYet /\ calls > history.started

\* C32: every event of one publish carries the value its path has in the
\* root the mutation produced and, for a subscriber with detail, as old value
\* the value its path has in the root before the mutation or the batch, also
\* when callbacks call set, delete or runInBatch during the publish.
C32_EventsComeFromOnePairOfRoots ==
    /\ \A e \in Log : RefEq(e.value, _get(history.root, e.path))
    /\ \A e \in DetailedLog : RefEq(e.oldValue, _get(history.before, e.path))

\* C38: every event delivered to a subscriber at P during a publish carries
\* the value store.get(P) returns when it is delivered.
C38_ValueIsTheCurrentValue == \A e \in Log : RefEq(e.value, e.now)

\* C38 as the code has it: the value is what store.get(P) returns when the
\* channel at P is visited, which is what the first callback of the channel
\* to run finds; a callback of the channel that runs after it finds what the
\* callbacks before it left.
C38_ValueIsTheCurrentValueAtTheVisit == \A e \in Log : e.first => RefEq(e.value, e.now)

\* A callback changed the state, and a channel visited after that received
\* the value of the state it left, not the one the published mutation made.
C38_Witness ==
    /\ CallbackCalled
    /\ \E e \in Log : e.first /\ ~RefEq(e.value, _get(history.root, e.path))

\* C40: a channel that leaves the observers trie during a publish before its
\* path is visited receives no event of the publish, and no subscriber
\* receives an event once it has unsubscribed.
C40_ChannelsAreLookedUpAtTheVisit ==
    /\ \A e \in Log : e.path \notin history.closed
    /\ \A e \in Log : ~e.left

\* The _notify returned: a callback had unsubscribed the only subscriber of
\* a channel on the way, and the subscriber it was serving got its event.
C40_Witness ==
    /\ ~InNotify
    /\ history.closed # {}
    /\ Log # {}

\* Subscriber 2 and then subscriber 1 subscribed at a/b; the callback of
\* subscriber 2 unsubscribed subscriber 1 before subject.next reached it.
C40_WitnessOfSameChannel ==
    /\ ~InNotify
    /\ history.left = {1}
    /\ history.closed = {}
    /\ SubscribersAt(<<"a", "b">>) = {2}
    /\ \E e \in Log : e.sub = 2 /\ e.path = <<"a", "b">>
    /\ \A e \in Log : e.sub # 1

====
